---- MODULE Spec2Model ----
(***************************************************************************)
(* A model of sparcur's path-addressed document engine                    *)
(* (src/sparcur/core.py: AtomicDictOperations, _DictTransformer, zipeq).  *)
(*                                                                         *)
(* A document is a Python dict of dicts and scalars.  Dicts are mutable    *)
(* objects, so the model keeps a heap of dict objects: heap[i] is the      *)
(* content of object i and heap[1] is the document `data` the caller       *)
(* passes.  A value is a scalar or a reference to a dict object, so that   *)
(* aliasing (two keys holding the same object) is representable.           *)
(***************************************************************************)
EXTENDS Integers, Sequences, FiniteSets, TLC

VARIABLES heap, pc, call, pre, ret

vars == <<heap, pc, call, pre, ret>>

-----------------------------------------------------------------------------
(* Bounds *)

\* integers stored in documents are 1..MaxInt
MaxInt == 1
\* number of keys (all levels) of the document the caller passes
MaxSize == 2
\* length of the paths the caller passes
MaxPathLen == 2
\* depth to which a document is unfolded when two documents are compared
MaxDepth == 4

KeySeq == <<"x", "y">>

Keys == {KeySeq[i] : i \in 1..Len(KeySeq)}

-----------------------------------------------------------------------------
(* Values *)

IntV(n) == [t |-> "int", v |-> n]

\* Python's None
NoneV == [t |-> "none", v |-> 0]

\* the empty tuple (), a zero-length iterable
TupleV == [t |-> "tuple", v |-> 0]

\* a reference to the dict object heap[i]
Ref(i) == [t |-> "ref", v |-> i]

Scalars == {IntV(n) : n \in 1..MaxInt} \cup {NoneV, TupleV}

EmptyDict == [k \in {} |-> NoneV]

DictSet(d, key, value) == [k \in (DOMAIN d) \cup {key} |-> IF k = key THEN value ELSE d[k]]

DictDel(d, key) == [k \in (DOMAIN d) \ {key} |-> d[k]]

\* heap[id][key] = value
HeapSet(h, id, key, value) == [h EXCEPT ![id] = DictSet(h[id], key, value)]

\* `key in container` of Python: a dict answers, a tuple answers False,
\* an int or None raises TypeError (argument is not iterable)
Contains(h, container, key) ==
    CASE container.t = "ref" -> IF key \in DOMAIN h[container.v] THEN "yes" ELSE "no"
      [] container.t = "tuple" -> "no"
      [] OTHER -> "TypeError"

-----------------------------------------------------------------------------
(* Documents as trees: what structural equality (==) of Python compares *)

Absent == [t |-> "absent", v |-> 0]

RECURSIVE Tree(_, _, _)
Tree(h, value, fuel) ==
    IF value.t # "ref" THEN value
    ELSE IF fuel = 0 THEN [t |-> "deep", v |-> 0]
    ELSE [t |-> "dict",
          d |-> [k \in DOMAIN h[value.v] |-> Tree(h, h[value.v][k], fuel - 1)]]

DocTree(h) == Tree(h, Ref(1), MaxDepth)

RECURSIVE TLookup(_, _)
TLookup(tree, path) ==
    IF path = <<>> THEN tree
    ELSE IF tree.t = "dict" /\ Head(path) \in DOMAIN tree.d
         THEN TLookup(tree.d[Head(path)], Tail(path))
         ELSE Absent

-----------------------------------------------------------------------------
(* Exceptions.  An operation's outcome is a record: err is "ok" or the    *)
(* class of the exception raised, heap the heap it leaves, val its return  *)
(* value.                                                                  *)

Res(err, h, val) == [err |-> err, heap |-> h, val |-> val]

\* isinstance(e, types), as the except clauses test it: the exception
\* classes of sparcur.exceptions are siblings, none derives from another
\* nor from TypeError
IsInstance(err, types) == err \in types

-----------------------------------------------------------------------------
(* AtomicDictOperations *)

\* the private marker of "the source path has no prefix"
empty_node_key == "__empty_node_key"

RECURSIVE get_source_prefixes(_, _, _)
get_source_prefixes(h, source, source_prefixes) ==
    IF source_prefixes = <<>> THEN [err |-> "ok", source |-> source]
    ELSE LET node_key == Head(source_prefixes)
             c == Contains(h, source, node_key)
         IN  CASE c = "yes" ->
                    get_source_prefixes(h, h[source.v][node_key], Tail(source_prefixes))
               [] c = "TypeError" -> [err |-> "TypeError", source |-> source]
               [] OTHER ->
                    \* the message calls source.keys(): a tuple has none
                    [err |-> IF source.t = "ref" THEN "NoSourcePathError"
                                                 ELSE "AttributeError",
                     source |-> source]

get_source(h, source_path) ==
    LET source_prefixes == SubSeq(source_path, 1, Len(source_path) - 1)
        source_key == source_path[Len(source_path)]
        w == get_source_prefixes(h, Ref(1), source_prefixes)
        node_key == IF source_prefixes # <<>>
                    THEN source_prefixes[Len(source_prefixes)]
                    ELSE empty_node_key
        c == Contains(h, w.source, source_key)
        err == CASE w.err # "ok" -> w.err
                 [] c = "yes" -> "ok"
                 [] c = "TypeError" -> "TypeError"
                 [] w.source.t = "ref" -> "NoSourcePathError"
                 [] OTHER -> "TypeError"
    IN  [err |-> err, source_key |-> source_key, node_key |-> node_key,
         source |-> w.source]

\* a walk down the target prefixes that creates nothing: a missing prefix
\* is an error, as it is for a read
RECURSIVE add_prefixes_strict(_, _, _)
add_prefixes_strict(h, target, target_prefixes) ==
    IF target_prefixes = <<>> THEN [err |-> "ok", heap |-> h, target |-> target]
    ELSE LET target_name == Head(target_prefixes)
             c == Contains(h, target, target_name)
         IN  CASE c = "TypeError" -> [err |-> "TypeError", heap |-> h, target |-> target]
               [] c = "yes" ->
                    add_prefixes_strict(h, h[target.v][target_name], Tail(target_prefixes))
               [] OTHER -> [err |-> "NoSourcePathError", heap |-> h, target |-> target]

RECURSIVE add_prefixes(_, _, _)
add_prefixes(h, target, target_prefixes) ==
    IF target_prefixes = <<>> THEN [err |-> "ok", heap |-> h, target |-> target]
    ELSE LET target_name == Head(target_prefixes)
             c == Contains(h, target, target_name)
         IN  CASE c = "TypeError" -> [err |-> "TypeError", heap |-> h, target |-> target]
               [] c = "yes" ->
                    add_prefixes(h, h[target.v][target_name], Tail(target_prefixes))
               [] target.t # "ref" ->
                    \* item assignment on a tuple
                    [err |-> "TypeError", heap |-> h, target |-> target]
               [] OTHER ->
                    LET new == Len(h) + 1
                        h2 == HeapSet(Append(h, EmptyDict), target.v, target_name, Ref(new))
                    IN  add_prefixes(h2, Ref(new), Tail(target_prefixes))

\* add that never tests whether the key exists
adops_add_overwrites(h, target_path, value, fail_on_exists, update) ==
    LET w == add_prefixes(h, Ref(1), SubSeq(target_path, 1, Len(target_path) - 1))
        target_key == target_path[Len(target_path)]
        c == Contains(w.heap, w.target, target_key)
    IN  CASE w.err # "ok" -> Res(w.err, w.heap, NoneV)
          [] w.target.t # "ref" -> Res("TypeError", w.heap, NoneV)
          [] OTHER -> Res("ok", HeapSet(w.heap, w.target.v, target_key, value), NoneV)

adops_add(h, target_path, value, fail_on_exists, update) ==
    LET w == add_prefixes(h, Ref(1), SubSeq(target_path, 1, Len(target_path) - 1))
        target_key == target_path[Len(target_path)]
        c == Contains(w.heap, w.target, target_key)
    IN  CASE w.err # "ok" -> Res(w.err, w.heap, NoneV)
          [] ~update /\ fail_on_exists /\ c = "TypeError" -> Res("TypeError", w.heap, NoneV)
          [] ~update /\ fail_on_exists /\ c = "yes" ->
                Res("TargetPathExistsError", w.heap, NoneV)
          [] w.target.t # "ref" -> Res("TypeError", w.heap, NoneV)
          [] OTHER -> Res("ok", HeapSet(w.heap, w.target.v, target_key, value), NoneV)

adops_update(h, target_path, value) == adops_add(h, target_path, value, TRUE, TRUE)

adops_get(h, source_path) ==
    LET gs == get_source(h, source_path)
    IN  IF gs.err # "ok" THEN Res(gs.err, h, NoneV)
        ELSE Res("ok", h, h[gs.source.v][gs.source_key])

adops_pop(h, source_path) ==
    LET gs == get_source(h, source_path)
    IN  IF gs.err # "ok" THEN Res(gs.err, h, NoneV)
        ELSE Res("ok",
                 [h EXCEPT ![gs.source.v] = DictDel(@, gs.source_key)],
                 h[gs.source.v][gs.source_key])

\* the dict objects that object i refers to
Succ(h, i) == {h[i][k].v : k \in {kk \in DOMAIN h[i] : h[i][kk].t = "ref"}}

\* the dict objects reachable from the objects of frontier, themselves included
RECURSIVE Reach(_, _, _)
Reach(h, frontier, seen) ==
    IF frontier \subseteq seen THEN seen
    ELSE Reach(h, UNION {Succ(h, i) : i \in frontier \ seen}, seen \cup frontier)

\* copy.deepcopy: a fresh object per reachable dict object, sharing kept
deepcopy(h, value) ==
    IF value.t # "ref" THEN [heap |-> h, val |-> value]
    ELSE LET R == Reach(h, {value.v}, {})
             new(i) == Len(h) + Cardinality({j \in R : j <= i})
             old(n) == CHOOSE i \in R : new(i) = n
             copied(i) == [k \in DOMAIN h[i] |->
                             IF h[i][k].t = "ref" THEN Ref(new(h[i][k].v)) ELSE h[i][k]]
         IN  [heap |-> [n \in 1..(Len(h) + Cardinality(R)) |->
                           IF n <= Len(h) THEN h[n] ELSE copied(old(n))],
              val |-> Ref(new(value.v))]

\* _copy_or_move that adds the source object itself, not a deep copy of it
copy_or_move_aliasing(h, source_path, target_path, move) ==
    LET gs == get_source(h, source_path)
    IN  IF gs.err # "ok" THEN Res(gs.err, h, NoneV)
        ELSE LET parent == gs.source.v
                 source == h[parent][gs.source_key]
             IN  IF move
                 THEN LET popped == [h EXCEPT ![parent] = DictDel(@, gs.source_key)]
                          a == adops_add(popped, target_path, source, TRUE, FALSE)
                      IN  \* finally: runs whether or not the add raised
                          IF gs.node_key # empty_node_key
                          THEN Res(a.err, HeapSet(a.heap, parent, gs.node_key, source), NoneV)
                          ELSE Res(a.err, a.heap, NoneV)
                 ELSE IF source.t = "ref" /\ Tree(h, source, MaxDepth) = DocTree(h)
                      THEN Res("BaseException", h, NoneV)
                      ELSE adops_add(h, target_path, source, TRUE, FALSE)

copy_or_move(h, source_path, target_path, move) ==
    LET gs == get_source(h, source_path)
    IN  IF gs.err # "ok" THEN Res(gs.err, h, NoneV)
        ELSE LET parent == gs.source.v
                 source == h[parent][gs.source_key]
             IN  IF move
                 THEN LET popped == [h EXCEPT ![parent] = DictDel(@, gs.source_key)]
                          a == adops_add(popped, target_path, source, TRUE, FALSE)
                      IN  \* finally: runs whether or not the add raised
                          IF gs.node_key # empty_node_key
                          THEN Res(a.err, HeapSet(a.heap, parent, gs.node_key, source), NoneV)
                          ELSE Res(a.err, a.heap, NoneV)
                 ELSE IF source.t = "ref" /\ Tree(h, source, MaxDepth) = DocTree(h)
                      THEN Res("BaseException", h, NoneV)
                      ELSE LET c == deepcopy(h, source)
                           IN  adops_add(c.heap, target_path, c.val, TRUE, FALSE)

adops_copy(h, source_path, target_path) == copy_or_move(h, source_path, target_path, FALSE)

adops_move(h, source_path, target_path) == copy_or_move(h, source_path, target_path, TRUE)

\* apply that re-raises the missing-path error even for an optional source
adops_apply_reraise(r, source_key_optional, extra_error_types, failure_value) == r

\* apply(function, *args): r is the outcome of function(*args)
adops_apply(r, source_key_optional, extra_error_types, failure_value) ==
    IF r.err = "ok" THEN r
    ELSE IF IsInstance(r.err, {"NoSourcePathError"} \cup extra_error_types)
         THEN IF ~source_key_optional THEN r
              ELSE Res("ok", r.heap, failure_value)
         ELSE r

-----------------------------------------------------------------------------
(* _DictTransformer: what each batch operator does with one rule of its    *)
(* list.                                                                    *)

\* apply's default failure_value
failure_value == NoneV

DT_get(h, source_path, source_key_optional) ==
    adops_apply(adops_get(h, source_path), source_key_optional, {}, failure_value)

DT_pop(h, source_path, source_key_optional) ==
    adops_apply(adops_pop(h, source_path), source_key_optional, {}, failure_value)

DT_copy(h, source_path, target_path, source_key_optional) ==
    adops_apply(adops_copy(h, source_path, target_path), source_key_optional, {},
                failure_value)

DT_move(h, source_path, target_path, source_key_optional) ==
    adops_apply(adops_move(h, source_path, target_path), source_key_optional, {},
                failure_value)

\* update: new is function(value); the write goes through the name
\* `adopts`, which the module never binds
DT_update(h, path, new) ==
    LET g == adops_get(h, path)
    IN  IF g.err # "ok" THEN g
        ELSE Res("NameError", h, NoneV)

-----------------------------------------------------------------------------
(* The documents and paths a caller passes *)

Paths == UNION {[1..n -> Keys] : n \in 1..MaxPathLen}

KeyId(k) == 1 + (CHOOSE i \in 1..Len(KeySeq) : KeySeq[i] = k)

InnerDicts == UNION {[S -> Scalars] : S \in SUBSET Keys}

RootDicts ==
    UNION {{f \in [S -> Scalars \cup {Ref(KeyId(k)) : k \in Keys}] :
              \A k \in S : f[k].t = "ref" => f[k].v = KeyId(k)} : S \in SUBSET Keys}

RECURSIVE Size(_)
Size(h) == IF h = <<>> THEN 0 ELSE Cardinality(DOMAIN Head(h)) + Size(Tail(h))

\* tree-shaped documents of depth two: object 1 is the document, object
\* KeyId(k) the dict stored at key k when there is one
Documents ==
    {h \in {[i \in 1..(1 + Len(KeySeq)) |-> IF i = 1 THEN root ELSE inner[KeySeq[i - 1]]] :
                root \in RootDicts, inner \in [Keys -> InnerDicts]} :
        /\ Size(h) <= MaxSize
        /\ \A k \in Keys : Ref(KeyId(k)) \notin {h[1][j] : j \in DOMAIN h[1]}
                              => h[KeyId(k)] = EmptyDict}

NoCall == [op |-> "none"]

Init ==
    /\ heap \in Documents
    /\ pc = "idle"
    /\ call = NoCall
    /\ pre = heap
    /\ ret = [err |-> "ok", val |-> NoneV]

\* the call c ends with outcome r
Finish(c, r) ==
    /\ pc' = IF r.err = "ok" THEN "returned" ELSE "raised"
    /\ call' = c
    /\ pre' = heap
    /\ heap' = r.heap
    /\ ret' = [err |-> r.err, val |-> r.val]

Add ==
    /\ pc = "idle"
    /\ \E path \in Paths, value \in Scalars, fail_on_exists \in BOOLEAN, update \in BOOLEAN :
        Finish([op |-> "adops.add", path |-> path, value |-> value,
                fail_on_exists |-> fail_on_exists, update |-> update],
               adops_add(heap, path, value, fail_on_exists, update))

Get ==
    /\ pc = "idle"
    /\ \E path \in Paths :
        Finish([op |-> "adops.get", path |-> path], adops_get(heap, path))

Pop ==
    /\ pc = "idle"
    /\ \E path \in Paths :
        Finish([op |-> "adops.pop", path |-> path], adops_pop(heap, path))

Copy ==
    /\ pc = "idle"
    /\ \E src \in Paths, dst \in Paths :
        Finish([op |-> "adops.copy", src |-> src, dst |-> dst], adops_copy(heap, src, dst))

Move ==
    /\ pc = "idle"
    /\ \E src \in Paths, dst \in Paths :
        Finish([op |-> "adops.move", src |-> src, dst |-> dst], adops_move(heap, src, dst))

BatchGet ==
    /\ pc = "idle"
    /\ \E path \in Paths, sko \in BOOLEAN :
        Finish([op |-> "get", path |-> path, source_key_optional |-> sko],
               DT_get(heap, path, sko))

BatchPop ==
    /\ pc = "idle"
    /\ \E path \in Paths, sko \in BOOLEAN :
        Finish([op |-> "pop", path |-> path, source_key_optional |-> sko],
               DT_pop(heap, path, sko))

BatchCopy ==
    /\ pc = "idle"
    /\ \E src \in Paths, dst \in Paths, sko \in BOOLEAN :
        Finish([op |-> "copy", src |-> src, dst |-> dst, source_key_optional |-> sko],
               DT_copy(heap, src, dst, sko))

BatchMove ==
    /\ pc = "idle"
    /\ \E src \in Paths, dst \in Paths, sko \in BOOLEAN :
        Finish([op |-> "move", src |-> src, dst |-> dst, source_key_optional |-> sko],
               DT_move(heap, src, dst, sko))

BatchUpdate ==
    /\ pc = "idle"
    /\ \E path \in Paths, new \in Scalars :
        Finish([op |-> "update", path |-> path, new |-> new], DT_update(heap, path, new))

Next ==
    \/ Add
    \/ Get
    \/ Pop
    \/ Copy
    \/ Move
    \/ BatchGet
    \/ BatchPop
    \/ BatchCopy
    \/ BatchMove
    \/ BatchUpdate

Spec == Init /\ [][Next]_vars


-----------------------------------------------------------------------------
(* What the properties speak of: the document as a tree, before and after *)
(* the call.                                                              *)

Before == DocTree(pre)

After == DocTree(heap)

EmptyTree == [t |-> "dict", d |-> EmptyDict]

IsPrefix(p, q) == Len(p) <= Len(q) /\ SubSeq(q, 1, Len(p)) = p

\* neither path leads through the other
Apart(p, q) == ~IsPrefix(p, q) /\ ~IsPrefix(q, p)

\* the tree with value at path, missing prefixes made empty mappings
RECURSIVE TSet(_, _, _)
TSet(tree, path, value) ==
    LET k == Head(path)
        child == IF k \in DOMAIN tree.d THEN tree.d[k] ELSE EmptyTree
    IN  [t |-> "dict",
         d |-> DictSet(tree.d, k, IF Len(path) = 1 THEN value
                                  ELSE TSet(child, Tail(path), value))]

\* the tree without the key at path (which is present)
RECURSIVE TDel(_, _)
TDel(tree, path) ==
    LET k == Head(path)
    IN  [t |-> "dict",
         d |-> IF Len(path) = 1 THEN DictDel(tree.d, k)
               ELSE DictSet(tree.d, k, TDel(tree.d[k], Tail(path)))]

\* path is missing from the tree: some mapping on the way lacks its key
Missing(tree, path) ==
    \E i \in 1..Len(path) :
        LET at == TLookup(tree, SubSeq(path, 1, i - 1))
        IN  at.t = "dict" /\ path[i] \notin DOMAIN at.d

MoveDone ==
    /\ pc = "returned"
    /\ call.op = "adops.move"
    /\ TLookup(Before, call.src) # Absent
    /\ TLookup(Before, call.dst) = Absent
    /\ Apart(call.src, call.dst)

\* C1: a successful move leaves the moved value at dst, removes the source
\* key from its parent mapping, gives that parent no new key and changes
\* nothing else (stated for src and dst that do not lead through each other)
C1_MoveFrame ==
    MoveDone =>
        After = TSet(TDel(Before, call.src), call.dst, TLookup(Before, call.src))

\* C2: a move that fails because dst exists restores the popped value: src
\* reads as before and the document is structurally what it was (stated
\* for src and dst that do not lead through each other)
C2_MoveRestores ==
    (pc = "raised" /\ call.op = "adops.move" /\ ret.err = "TargetPathExistsError"
        /\ Apart(call.src, call.dst)) =>
        /\ After = Before
        /\ adops_get(heap, call.src).err = "ok"
        /\ Tree(heap, adops_get(heap, call.src).val, MaxDepth) = TLookup(Before, call.src)

\* C3: after a successful move, get(dst) returns the value that was at src
\* and get(src) fails with NoSourcePathError
C3_MoveThenGet ==
    MoveDone =>
        /\ adops_get(heap, call.dst).err = "ok"
        /\ Tree(heap, adops_get(heap, call.dst).val, MaxDepth) = TLookup(Before, call.src)
        /\ adops_get(heap, call.src).err = "NoSourcePathError"

\* C8: batch update writes function(old value) back at the rule's path,
\* overwriting without error, and changes nothing else
C8_UpdateWrites ==
    (pc # "idle" /\ call.op = "update" /\ TLookup(Before, call.path) # Absent) =>
        /\ pc = "returned"
        /\ After = TSet(Before, call.path, call.new)

\* C9: what batch get/pop yield for an absent optional source differs from
\* what they yield when the path holds None or an empty collection
C9_FailureMarkerDistinct ==
    (pc = "returned" /\ call.op \in {"get", "pop"} /\ call.source_key_optional
        /\ Missing(Before, call.path)) =>
        \A v \in {NoneV, TupleV} :
            LET stored == adops_add(pre, call.path, v, FALSE, TRUE)
            IN  stored.err = "ok" =>
                    /\ DT_get(stored.heap, call.path, TRUE).val # ret.val
                    /\ DT_pop(stored.heap, call.path, TRUE).val # ret.val

OptionalGetOfMissing ==
    /\ pc # "idle"
    /\ call.op = "get"
    /\ call.source_key_optional
    /\ Missing(Before, call.path)

\* C10: an optional get of a path that is missing (final key or a prefix)
\* returns the failure marker without raising and leaves the document
\* structurally equal, no prefix mapping created
C10_OptionalGetMissing ==
    OptionalGetOfMissing =>
        /\ pc = "returned"
        /\ ret.val = failure_value
        /\ After = Before
        /\ heap = pre

\* an optional get whose first prefix is missing has returned
C10_Witness ==
    /\ OptionalGetOfMissing
    /\ pc = "returned"
    /\ Len(call.path) = 2
    /\ TLookup(Before, <<call.path[1]>>) = Absent


-----------------------------------------------------------------------------
(* zipeq and _DictTransformer.derive, for one rule of the list.            *)
(* The transform is the caller's: the model knows it by what it returns,   *)
(* a record [iter, items]: a sequence of items, or (iter FALSE) a value    *)
(* that cannot be iterated, such as an unboxed scalar.                     *)

Returned(items) == [iter |-> TRUE, items |-> items]

NotIterable == [iter |-> FALSE, items |-> <<>>]

\* iter(x) succeeds: None, the failure value of apply, cannot be iterated
Iterable(x) == "iter" \in DOMAIN x /\ x.iter

\* zip that stops at the shorter sequence instead of failing
zipeq_truncating(target_paths, x) ==
    IF ~Iterable(x) THEN Res("TypeError", <<>>, <<>>)
    ELSE LET n == IF Len(target_paths) < Len(x.items) THEN Len(target_paths)
                  ELSE Len(x.items)
         IN  Res("ok", <<>>, [i \in 1..n |-> <<target_paths[i], x.items[i]>>])

\* tuple(zipeq(target_paths, x))
zipeq(target_paths, x) ==
    IF ~Iterable(x) THEN Res("TypeError", <<>>, <<>>)
    ELSE IF Len(target_paths) # Len(x.items) THEN Res("LengthMismatchError", <<>>, <<>>)
    ELSE Res("ok", <<>>, [i \in 1..Len(target_paths) |-> <<target_paths[i], x.items[i]>>])

\* a defer_get whose inner get is optional: a missing source reaches the
\* transform as the failure marker
defer_get_marker(h, source_paths, returns) ==
    [err |-> "ok", heap |-> h, val |-> returns,
     args |-> [i \in 1..Len(source_paths) |-> DT_get(h, source_paths[i], TRUE).val],
     invoked |-> 1]

\* cls.get(data, source_paths) expressed by the call derive_function(*args):
\* the values in order, or the exception of the first path that fails
\* (the call passes no source_key_optional, so it is False)
defer_get(h, source_paths, returns) ==
    LET failed == {i \in 1..Len(source_paths) : DT_get(h, source_paths[i], FALSE).err # "ok"}
        first == CHOOSE i \in failed : \A j \in failed : i <= j
    IN  IF failed = {}
        THEN [err |-> "ok", heap |-> h, val |-> returns,
              args |-> [i \in 1..Len(source_paths) |-> DT_get(h, source_paths[i], FALSE).val],
              invoked |-> 1]
        ELSE [err |-> DT_get(h, source_paths[first], FALSE).err, heap |-> h, val |-> NoneV,
              args |-> <<>>, invoked |-> 0]

\* empty that lets an empty value through when the policy is not ERROR
empty_never_skips(value, policy) ==
    IF (value.t = "none" \/ value.t = "tuple") /\ policy = "ERROR"
    THEN [err |-> "ValueError", skip |-> TRUE]
    ELSE [err |-> "ok", skip |-> policy = "OK"]

\* the local function empty(value) of derive, under the policy `empty`:
\* skip says the value is not to be written
empty(value, policy) ==
    LET allow_empty == policy = "OK" /\ ~(policy = "CULL")
        error_empty == policy = "ERROR"
        e == value.t = "none" \/ value.t = "tuple"
    IN  IF e /\ error_empty THEN [err |-> "ValueError", skip |-> TRUE]
        ELSE [err |-> "ok", skip |-> e \/ (allow_empty /\ ~e)]

\* cls.add(data, ((tp, v) for tp, v in zipped if not empty(v))): the pairs
\* from the i-th on; written collects the indices whose add was done
RECURSIVE derive_add(_, _, _, _, _)
derive_add(h, zipped, policy, i, written) ==
    IF i > Len(zipped) THEN [err |-> "ok", heap |-> h, written |-> written]
    ELSE LET e == empty(zipped[i][2], policy)
             a == adops_add(h, zipped[i][1], zipped[i][2], TRUE, FALSE)
         IN  CASE e.err # "ok" -> [err |-> e.err, heap |-> h, written |-> written]
               [] e.skip -> derive_add(h, zipped, policy, i + 1, written)
               [] a.err # "ok" -> [err |-> a.err, heap |-> a.heap, written |-> written]
               [] OTHER -> derive_add(a.heap, zipped, policy, i + 1, written \cup {i})

\* a derive rule that zips the return value with the target paths even when
\* there is none
DT_derive_zips_always(h, source_paths, returns, target_paths, source_key_optional, policy) ==
    LET dg == defer_get(h, source_paths, returns)
        x == adops_apply(Res(dg.err, h, dg.val), source_key_optional, {}, failure_value)
        z == adops_apply(zipeq(target_paths, x.val), source_key_optional, {"TypeError"},
                         <<>>)
        w == derive_add(h, z.val, policy, 1, {})
        out(err, hh, written) ==
            [err |-> err, heap |-> hh, val |-> NoneV, invoked |-> dg.invoked,
             args |-> dg.args, written |-> written]
    IN  CASE x.err # "ok" -> out(x.err, h, {})
          [] z.err # "ok" -> out(z.err, h, {})
          [] OTHER -> out(w.err, w.heap, w.written)

DT_derive(h, source_paths, returns, target_paths, source_key_optional, policy) ==
    LET dg == defer_get(h, source_paths, returns)
        x == adops_apply(Res(dg.err, h, dg.val), source_key_optional, {}, failure_value)
        z == adops_apply(zipeq(target_paths, x.val), source_key_optional, {"TypeError"},
                         <<>>)
        w == derive_add(h, z.val, policy, 1, {})
        out(err, hh, written) ==
            [err |-> err, heap |-> hh, val |-> NoneV, invoked |-> dg.invoked,
             args |-> dg.args, written |-> written]
    IN  CASE x.err # "ok" -> out(x.err, h, {})
          [] target_paths = <<>> -> out("ok", h, {})
          [] z.err # "ok" -> out(z.err, h, {})
          [] OTHER -> out(w.err, w.heap, w.written)

-----------------------------------------------------------------------------
(* derive, called with one rule *)

DeriveSources == {<<"x">>, <<"x", "y">>}

DeriveTargets == {<<"y">>, <<"x", "x">>, <<"y", "x">>}

\* the values a transform returns
DeriveValues == {IntV(1), NoneV, TupleV}

\* a rule has one or two source paths; these are the numbers of target
\* paths it declares and of values its transform returns
Arities == {0, 1, 2}

SourceLists ==
    {<<p>> : p \in DeriveSources} \cup
    {<<pq[1], pq[2]>> : pq \in {pq \in DeriveSources \X DeriveSources : pq[1] # pq[2]}}

TargetLists == UNION {[1..n -> DeriveTargets] : n \in Arities}

Returns == {Returned(items) : items \in UNION {[1..n -> DeriveValues] : n \in Arities}}
               \cup {NotIterable}

Policies == {"CULL", "OK", "ERROR"}

Derive ==
    /\ pc = "idle"
    /\ \E source_paths \in SourceLists, returns \in Returns, target_paths \in TargetLists,
          sko \in BOOLEAN, policy \in Policies :
        \E r \in {DT_derive(heap, source_paths, returns, target_paths, sko, policy)} :
            Finish([op |-> "derive", source_paths |-> source_paths,
                    returns |-> returns, target_paths |-> target_paths,
                    source_key_optional |-> sko, empty |-> policy,
                    invoked |-> r.invoked, args |-> r.args, written |-> r.written],
                   r)

NextDerive == Derive

SpecDerive == Init /\ [][NextDerive]_vars


-----------------------------------------------------------------------------
(* Properties of derive *)

\* "empty": None or a zero-length iterable
IsEmptyValue(v) == v.t \in {"none", "tuple"}

\* the transform was invoked and returned a sequence
DeriveInvoked ==
    /\ pc # "idle"
    /\ call.op = "derive"
    /\ call.invoked = 1
    /\ call.returns.iter

\* every target path is missing from the tree and no two lead through each
\* other: each write of the rule can be made and none collides
FreshTargets(tree, target_paths) ==
    /\ \A i \in 1..Len(target_paths) : Missing(tree, target_paths[i])
    /\ \A i, j \in 1..Len(target_paths) :
          i # j => Apart(target_paths[i], target_paths[j])

\* one value per target path, all target paths fresh
DeriveWellFormed ==
    /\ DeriveInvoked
    /\ Len(call.returns.items) = Len(call.target_paths)
    /\ FreshTargets(Before, call.target_paths)

\* the tree with items[i] at target_paths[i] for the i of keep, from the n-th on
RECURSIVE TWrites(_, _, _, _, _)
TWrites(tree, target_paths, items, keep, n) ==
    IF n > Len(target_paths) THEN tree
    ELSE TWrites(IF n \in keep THEN TSet(tree, target_paths[n], items[n]) ELSE tree,
                 target_paths, items, keep, n + 1)

ArityMismatch ==
    /\ DeriveInvoked
    /\ Len(call.returns.items) # Len(call.target_paths)

\* C4 (as claimed): a transform that returns a sequence whose length is not
\* the number of declared target paths raises LengthMismatchError, whatever
\* source_key_optional is, and the document is unchanged
C4_ArityAlways ==
    ArityMismatch => (ret.err = "LengthMismatchError" /\ After = Before)

\* C4 (amended): the same for a rule that declares at least one target path
C4_ArityWithTargets ==
    (ArityMismatch /\ call.target_paths # <<>>) =>
        (pc = "raised" /\ ret.err = "LengthMismatchError" /\ After = Before
            /\ call.written = {})

\* one value returned for two targets, source_key_optional true
C4_Witness ==
    /\ ArityMismatch
    /\ call.source_key_optional
    /\ Len(call.returns.items) = 1
    /\ Len(call.target_paths) = 2
    /\ ret.err = "LengthMismatchError"

\* C5: with policy OK every value the transform returns is written at its
\* target path, empty or not
C5_OkWritesAll ==
    (DeriveWellFormed /\ call.empty = "OK") =>
        /\ pc = "returned"
        /\ \A i \in 1..Len(call.target_paths) :
              TLookup(After, call.target_paths[i]) = call.returns.items[i]

\* C6: with policy CULL no empty value raises, exactly the empty values are
\* not written, and every other value is at its own target path
C6_CullSkipsEmpty ==
    /\ (pc # "idle" /\ call.op = "derive" /\ call.empty = "CULL") => ret.err # "ValueError"
    /\ (DeriveWellFormed /\ call.empty = "CULL") =>
          LET nonempty == {i \in 1..Len(call.target_paths) :
                              ~IsEmptyValue(call.returns.items[i])}
          IN  /\ pc = "returned"
              /\ call.written = nonempty
              /\ After = TWrites(Before, call.target_paths, call.returns.items, nonempty, 1)
              /\ \A i \in 1..Len(call.target_paths) :
                    TLookup(After, call.target_paths[i]) =
                        IF i \in nonempty THEN call.returns.items[i] ELSE Absent

\* an empty value first and a non-empty one second, the second alone written
C6_Witness ==
    /\ DeriveWellFormed
    /\ call.empty = "CULL"
    /\ pc = "returned"
    /\ Len(call.target_paths) = 2
    /\ IsEmptyValue(call.returns.items[1])
    /\ ~IsEmptyValue(call.returns.items[2])
    /\ call.written = {2}

\* C7: with policy ERROR a rule one of whose values is empty raises the
\* empty-value error and leaves none of its targets written
C7_ErrorWritesNothing ==
    (DeriveWellFormed /\ call.empty = "ERROR"
        /\ \E i \in 1..Len(call.target_paths) : IsEmptyValue(call.returns.items[i])) =>
        /\ ret.err = "ValueError"
        /\ After = Before


-----------------------------------------------------------------------------
(* copy, then one more operation applied under the copy or under the       *)
(* original.                                                                *)

\* the paths that lead through root, root itself not among them
Under(root) == {q \in Paths : IsPrefix(root, q) /\ q # root}

\* a copy has returned
Copied == pc = "returned" /\ call.op = "adops.copy"

\* the operation m, applied after the copy, ends with outcome r
Then(m, r) ==
    /\ pc' = "mutated"
    /\ call' = [op |-> "then", first |-> call, then |-> m]
    /\ pre' = heap
    /\ heap' = r.heap
    /\ ret' = [err |-> r.err, val |-> r.val]

AddUnder ==
    /\ Copied
    /\ \E root \in {call.src, call.dst} :
        \E path \in Under(root), value \in Scalars, fail_on_exists \in BOOLEAN :
            Then([op |-> "adops.add", root |-> root, path |-> path],
                 adops_add(heap, path, value, fail_on_exists, FALSE))

UpdateUnder ==
    /\ Copied
    /\ \E root \in {call.src, call.dst} :
        \E path \in Under(root), value \in Scalars :
            Then([op |-> "adops.update", root |-> root, path |-> path],
                 adops_update(heap, path, value))

PopUnder ==
    /\ Copied
    /\ \E root \in {call.src, call.dst} :
        \E path \in Under(root) :
            Then([op |-> "adops.pop", root |-> root, path |-> path],
                 adops_pop(heap, path))

MoveUnder ==
    /\ Copied
    /\ \E root \in {call.src, call.dst} :
        \E src \in Under(root), dst \in Under(root) :
            Then([op |-> "adops.move", root |-> root, path |-> src],
                 adops_move(heap, src, dst))

NextCopyThen ==
    \/ Copy
    \/ AddUnder
    \/ UpdateUnder
    \/ PopUnder
    \/ MoveUnder

SpecCopyThen == Init /\ [][NextCopyThen]_vars

\* the dict objects of the subtree at path, none when a scalar is there
Nodes(h, path) ==
    LET g == adops_get(h, path)
    IN  IF g.err = "ok" /\ g.val.t = "ref" THEN Reach(h, {g.val.v}, {}) ELSE {}

\* right after the copy: the two subtrees are equal and share no dict object
EqualAndDisjoint(src, dst) ==
    /\ TLookup(After, dst) # Absent
    /\ TLookup(After, dst) = TLookup(After, src)
    /\ Nodes(heap, src) \cap Nodes(heap, dst) = {}

\* an operation applied under one of the two paths has left the subtree at
\* the other path as it was
OtherUntouched ==
    LET other == IF call.then.root = call.first.dst THEN call.first.src
                 ELSE call.first.dst
    IN  TLookup(After, other) = TLookup(Before, other)

\* C11 (as claimed): after every copy the subtree at dst equals the subtree
\* at src and shares no node with it, and a later add, update, pop or move
\* under either of them leaves the other unchanged
C11_CopyIndependentAlways ==
    /\ Copied => EqualAndDisjoint(call.src, call.dst)
    /\ pc = "mutated" => OtherUntouched

\* C11 (amended): the same for a dst that does not lead through src
C11_CopyIndependent ==
    /\ (Copied /\ ~IsPrefix(call.src, call.dst)) =>
          EqualAndDisjoint(call.src, call.dst)
    /\ (pc = "mutated" /\ ~IsPrefix(call.first.src, call.first.dst)) => OtherUntouched

\* a mapping was copied and an add under the copy then changed the copy
C11_Witness ==
    /\ pc = "mutated"
    /\ ~IsPrefix(call.first.src, call.first.dst)
    /\ call.then.op = "adops.add"
    /\ call.then.root = call.first.dst
    /\ ret.err = "ok"
    /\ TLookup(Before, call.first.src).t = "dict"
    /\ TLookup(After, call.first.dst) # TLookup(Before, call.first.dst)


-----------------------------------------------------------------------------
(* Properties of add and of write collisions *)

\* an add was called on a path that already held a value
AddOnExisting ==
    /\ pc # "idle"
    /\ call.op = "adops.add"
    /\ TLookup(Before, call.path) # Absent

\* C12: add on a path that holds a value raises TargetPathExistsError and
\* changes nothing when fail_on_exists is set and update is not; it
\* overwrites without error when update is set, whatever fail_on_exists is,
\* and when neither is set
C12_AddFlags ==
    AddOnExisting =>
        IF call.fail_on_exists /\ ~call.update
        THEN /\ pc = "raised"
             /\ ret.err = "TargetPathExistsError"
             /\ After = Before
             /\ heap = pre
        ELSE /\ pc = "returned"
             /\ After = TSet(Before, call.path, call.value)

\* an add below a prefix was refused
C12_Witness ==
    /\ AddOnExisting
    /\ call.fail_on_exists /\ ~call.update
    /\ ret.err = "TargetPathExistsError"
    /\ Len(call.path) = 2

\* the batch operators that write at a destination: copy, move and derive,
\* each called with one rule
NextCollide ==
    \/ BatchCopy
    \/ BatchMove
    \/ Derive

SpecCollide == Init /\ [][NextCollide]_vars

\* a batch copy or move whose source resolves and whose destination holds a
\* value (the two paths not leading through each other)
CopyMoveCollision ==
    /\ pc # "idle"
    /\ call.op \in {"copy", "move"}
    /\ TLookup(Before, call.src) # Absent
    /\ TLookup(Before, call.dst) # Absent
    /\ Apart(call.src, call.dst)

\* the i-th output of a derive rule is to be written at a target path that
\* holds a value: the outputs before it are non-empty and go to fresh paths
\* apart from it, and the i-th is non-empty
DeriveCollision(i) ==
    /\ DeriveInvoked
    /\ Len(call.returns.items) = Len(call.target_paths)
    /\ i \in 1..Len(call.target_paths)
    /\ \A j \in 1..(i - 1) :
          /\ ~IsEmptyValue(call.returns.items[j])
          /\ Missing(Before, call.target_paths[j])
          /\ Apart(call.target_paths[j], call.target_paths[i])
          /\ \A k \in 1..(j - 1) : Apart(call.target_paths[k], call.target_paths[j])
    /\ ~IsEmptyValue(call.returns.items[i])
    /\ TLookup(Before, call.target_paths[i]) # Absent

\* C13: a copy, move or derive whose destination already holds a value
\* raises TargetPathExistsError, with source_key_optional true as with
\* false, and the value at the destination is still the one that was there
C13_CollisionSurfaced ==
    /\ CopyMoveCollision =>
          /\ pc = "raised"
          /\ ret.err = "TargetPathExistsError"
          /\ TLookup(After, call.dst) = TLookup(Before, call.dst)
    /\ \A i \in 1..2 :
          DeriveCollision(i) =>
              /\ pc = "raised"
              /\ ret.err = "TargetPathExistsError"
              /\ TLookup(After, call.target_paths[i]) =
                    TLookup(Before, call.target_paths[i])

\* the same with the derive rules run under policy OK left out
C13_CollisionSurfacedUnlessOk ==
    /\ CopyMoveCollision =>
          /\ pc = "raised"
          /\ ret.err = "TargetPathExistsError"
          /\ TLookup(After, call.dst) = TLookup(Before, call.dst)
    /\ \A i \in 1..2 :
          (DeriveCollision(i) /\ call.empty # "OK") =>
              /\ pc = "raised"
              /\ ret.err = "TargetPathExistsError"
              /\ TLookup(After, call.target_paths[i]) =
                    TLookup(Before, call.target_paths[i])


-----------------------------------------------------------------------------
(* _DictTransformer: the batch operators over their whole list of rules,   *)
(* from the i-th rule on.  attempted counts the rules the loop has taken   *)
(* up when the call ends.                                                   *)

Done(h, val, n) == [err |-> "ok", heap |-> h, val |-> val, attempted |-> n]

Raised(r, n) == [err |-> r.err, heap |-> r.heap, val |-> NoneV, attempted |-> n]

\* what a generator has yielded, collected in a list by the caller
ListV(items) == [t |-> "list", v |-> items]

RECURSIVE DT_add_rules(_, _, _)
DT_add_rules(h, adds, i) ==
    IF i > Len(adds) THEN Done(h, NoneV, Len(adds))
    ELSE LET r == adops_add(h, adds[i][1], adds[i][2], TRUE, FALSE)
         IN  IF r.err # "ok" THEN Raised(r, i)
             ELSE DT_add_rules(r.heap, adds, i + 1)

RECURSIVE DT_get_rules(_, _, _, _, _)
DT_get_rules(h, gets, source_key_optional, i, yielded) ==
    IF i > Len(gets) THEN Done(h, ListV(yielded), Len(gets))
    ELSE LET r == DT_get(h, gets[i], source_key_optional)
         IN  IF r.err # "ok" THEN Raised(r, i)
             ELSE DT_get_rules(r.heap, gets, source_key_optional, i + 1,
                               Append(yielded, r.val))

\* a pop generator that ends at the first missing optional path
RECURSIVE DT_pop_rules_stops(_, _, _, _, _)
DT_pop_rules_stops(h, pops, source_key_optional, i, yielded) ==
    IF i > Len(pops) THEN Done(h, ListV(yielded), Len(pops))
    ELSE LET r == DT_pop(h, pops[i], source_key_optional)
         IN  IF r.err # "ok" THEN Raised(r, i)
             ELSE IF adops_pop(h, pops[i]).err # "ok" THEN Done(h, ListV(yielded), i)
             ELSE DT_pop_rules_stops(r.heap, pops, source_key_optional, i + 1,
                                     Append(yielded, r.val))

RECURSIVE DT_pop_rules(_, _, _, _, _)
DT_pop_rules(h, pops, source_key_optional, i, yielded) ==
    IF i > Len(pops) THEN Done(h, ListV(yielded), Len(pops))
    ELSE LET r == DT_pop(h, pops[i], source_key_optional)
         IN  IF r.err # "ok" THEN Raised(r, i)
             ELSE DT_pop_rules(r.heap, pops, source_key_optional, i + 1,
                               Append(yielded, r.val))

\* delete takes source_key_optional and never reads it
RECURSIVE DT_delete_rules(_, _, _, _)
DT_delete_rules(h, deletes, source_key_optional, i) ==
    IF i > Len(deletes) THEN Done(h, NoneV, Len(deletes))
    ELSE LET r == adops_pop(h, deletes[i])
         IN  IF r.err # "ok" THEN Raised(r, i)
             ELSE DT_delete_rules(r.heap, deletes, source_key_optional, i + 1)

\* a copy loop that, like delete, never passes source_key_optional on
RECURSIVE DT_copy_rules_required(_, _, _, _)
DT_copy_rules_required(h, copies, source_key_optional, i) ==
    IF i > Len(copies) THEN Done(h, NoneV, Len(copies))
    ELSE LET r == DT_copy(h, copies[i][1], copies[i][2], FALSE)
         IN  IF r.err # "ok" THEN Raised(r, i)
             ELSE DT_copy_rules_required(r.heap, copies, source_key_optional, i + 1)

RECURSIVE DT_copy_rules(_, _, _, _)
DT_copy_rules(h, copies, source_key_optional, i) ==
    IF i > Len(copies) THEN Done(h, NoneV, Len(copies))
    ELSE LET r == DT_copy(h, copies[i][1], copies[i][2], source_key_optional)
         IN  IF r.err # "ok" THEN Raised(r, i)
             ELSE DT_copy_rules(r.heap, copies, source_key_optional, i + 1)

\* a move loop that takes its rules up from the last to the first
RECURSIVE DT_move_rules_reversed(_, _, _, _)
DT_move_rules_reversed(h, moves, source_key_optional, i) ==
    IF i > Len(moves) THEN Done(h, NoneV, Len(moves))
    ELSE LET rest == DT_move_rules_reversed(h, moves, source_key_optional, i + 1)
             r == DT_move(rest.heap, moves[i][1], moves[i][2], source_key_optional)
         IN  IF rest.err # "ok" THEN rest
             ELSE IF r.err # "ok" THEN Raised(r, i)
             ELSE Done(r.heap, NoneV, Len(moves))

RECURSIVE DT_move_rules(_, _, _, _)
DT_move_rules(h, moves, source_key_optional, i) ==
    IF i > Len(moves) THEN Done(h, NoneV, Len(moves))
    ELSE LET r == DT_move(h, moves[i][1], moves[i][2], source_key_optional)
         IN  IF r.err # "ok" THEN Raised(r, i)
             ELSE DT_move_rules(r.heap, moves, source_key_optional, i + 1)

\* a derive rule is <<source_paths, what the transform returns, target_paths>>
RECURSIVE DT_derive_rules(_, _, _, _, _)
\* the outcome o of a derive loop, with the calls of transforms made in it:
\* which rule's, and with what arguments
WithInvocations(o, invocations) ==
    [err |-> o.err, heap |-> o.heap, val |-> o.val, attempted |-> o.attempted,
     invocations |-> invocations]

\* the call that rule i, with outcome r, made of its transform, if any
Invocation(i, r) ==
    IF r.invoked = 1 THEN <<[rule |-> i, args |-> r.args]>> ELSE <<>>

\* the outcome rest of the later rules, after the calls first
InvokedFirst(first, rest) == WithInvocations(rest, first \o rest.invocations)

\* the loop after rule i ended with outcome r
derive_next(r, derives, source_key_optional, policy, i) ==
    IF r.err # "ok" THEN WithInvocations(Raised(r, i), Invocation(i, r))
    ELSE InvokedFirst(Invocation(i, r),
                      DT_derive_rules(r.heap, derives, source_key_optional, policy, i + 1))

DT_derive_rules(h, derives, source_key_optional, policy, i) ==
    IF i > Len(derives) THEN WithInvocations(Done(h, NoneV, Len(derives)), <<>>)
    ELSE derive_next(DT_derive(h, derives[i][1], derives[i][2], derives[i][3],
                               source_key_optional, policy),
                     derives, source_key_optional, policy, i)

-----------------------------------------------------------------------------
(* The batch operators, called with a list of one or two rules *)

BatchPaths == {<<"x">>, <<"y">>, <<"x", "y">>}

\* the numbers of rules in a list
BatchLens == {1, 2}

Lists(S) == UNION {[1..n -> S] : n \in BatchLens}

AddRules == BatchPaths \X {IntV(1), NoneV}

CopyRules == BatchPaths \X BatchPaths

\* rules with one target path and a transform that returns one value, and
\* rules with no target path, whose transform returns one value or a value
\* that is not a sequence
DeriveRules ==
    {<<sp, Returned(<<IntV(1)>>), tp>> :
        sp \in {<<<<"x">>>>, <<<<"y">>>>, <<<<"x">>, <<"y">>>>},
        tp \in {<<<<"y">>>>, <<<<"x", "x">>>>}} \cup
    {<<sp, returns, <<>>>> :
        sp \in {<<<<"x">>>>, <<<<"x">>, <<"y">>>>},
        returns \in {Returned(<<IntV(1)>>), NotIterable}}

Adds ==
    /\ pc = "idle"
    /\ \E adds \in Lists(AddRules) :
        \E r \in {DT_add_rules(heap, adds, 1)} :
            Finish([op |-> "add rules", rules |-> adds, attempted |-> r.attempted], r)

Gets ==
    /\ pc = "idle"
    /\ \E gets \in Lists(BatchPaths), sko \in BOOLEAN :
        \E r \in {DT_get_rules(heap, gets, sko, 1, <<>>)} :
            Finish([op |-> "get rules", rules |-> gets, source_key_optional |-> sko,
                    attempted |-> r.attempted], r)

Pops ==
    /\ pc = "idle"
    /\ \E pops \in Lists(BatchPaths), sko \in BOOLEAN :
        \E r \in {DT_pop_rules(heap, pops, sko, 1, <<>>)} :
            Finish([op |-> "pop rules", rules |-> pops, source_key_optional |-> sko,
                    attempted |-> r.attempted], r)

Deletes ==
    /\ pc = "idle"
    /\ \E deletes \in Lists(BatchPaths), sko \in BOOLEAN :
        \E r \in {DT_delete_rules(heap, deletes, sko, 1)} :
            Finish([op |-> "delete rules", rules |-> deletes, source_key_optional |-> sko,
                    attempted |-> r.attempted], r)

Copies ==
    /\ pc = "idle"
    /\ \E copies \in Lists(CopyRules), sko \in BOOLEAN :
        \E r \in {DT_copy_rules(heap, copies, sko, 1)} :
            Finish([op |-> "copy rules", rules |-> copies, source_key_optional |-> sko,
                    attempted |-> r.attempted], r)

Moves ==
    /\ pc = "idle"
    /\ \E moves \in Lists(CopyRules), sko \in BOOLEAN :
        \E r \in {DT_move_rules(heap, moves, sko, 1)} :
            Finish([op |-> "move rules", rules |-> moves, source_key_optional |-> sko,
                    attempted |-> r.attempted], r)

Derives ==
    /\ pc = "idle"
    /\ \E derives \in Lists(DeriveRules), sko \in BOOLEAN, policy \in Policies :
        \E r \in {DT_derive_rules(heap, derives, sko, policy, 1)} :
            Finish([op |-> "derive rules", rules |-> derives, source_key_optional |-> sko,
                    empty |-> policy, attempted |-> r.attempted,
                    invocations |-> r.invocations], r)

NextBatch ==
    \/ Adds
    \/ Gets
    \/ Pops
    \/ Deletes
    \/ Copies
    \/ Moves
    \/ Derives

SpecBatch == Init /\ [][NextBatch]_vars

-----------------------------------------------------------------------------
(* Properties of the batch operators *)

BatchCall(ops) == pc # "idle" /\ call.op \in ops

\* the source paths of a rule
RuleSources(op, rule) == IF op = "derive rules" THEN rule[1] ELSE <<rule[1]>>

\* a source path of the rule is missing from the document h
SourceMissing(h, op, rule) ==
    \E k \in 1..Len(RuleSources(op, rule)) :
        Missing(DocTree(h), RuleSources(op, rule)[k])

\* the rule carried out on its own
One(h, op, rule, sko, policy) ==
    CASE op = "copy rules" -> adops_copy(h, rule[1], rule[2])
      [] op = "move rules" -> adops_move(h, rule[1], rule[2])
      [] op = "derive rules" -> DT_derive(h, rule[1], rule[2], rule[3], sko, policy)

\* what the optional-source policy asks of the rules from the i-th on: a
\* rule whose source is missing is passed over when sko is set and ends the
\* batch with the missing-path error otherwise; any other rule is carried
\* out, and its error, if any, ends the batch
RECURSIVE BatchPolicy(_, _, _, _, _, _)
BatchPolicy(h, op, rules, sko, policy, i) ==
    IF i > Len(rules) THEN [err |-> "ok", heap |-> h, attempted |-> Len(rules)]
    ELSE IF SourceMissing(h, op, rules[i])
         THEN IF sko THEN BatchPolicy(h, op, rules, sko, policy, i + 1)
              ELSE [err |-> "NoSourcePathError", heap |-> h, attempted |-> i]
         ELSE LET r == One(h, op, rules[i], sko, policy)
              IN  IF r.err # "ok" THEN [err |-> r.err, heap |-> r.heap, attempted |-> i]
                  ELSE BatchPolicy(r.heap, op, rules, sko, policy, i + 1)

\* a copy rule that can be carried out on the tree: the source resolves and
\* the destination is fresh and apart from it
GoodCopy(tree, rule) ==
    /\ TLookup(tree, rule[1]) # Absent
    /\ Missing(tree, rule[2])
    /\ Apart(rule[1], rule[2])

CopyOf(tree, rule) == TSet(tree, rule[2], TLookup(tree, rule[1]))

\* C14: in a batch of copy, move or derive rules a rule whose source is
\* missing writes nothing, and the later rules are carried out exactly when
\* source_key_optional is set; when it is not, the batch raises
\* NoSourcePathError at that rule, takes up no later rule and keeps what
\* the earlier rules did
C14_BatchOptionalPolicy ==
    /\ BatchCall({"copy rules", "move rules", "derive rules"}) =>
          LET e == BatchPolicy(pre, call.op, call.rules, call.source_key_optional,
                               IF call.op = "derive rules" THEN call.empty ELSE "CULL", 1)
          IN  /\ ret.err = e.err
              /\ heap = e.heap
              /\ call.attempted = e.attempted
    /\ (BatchCall({"copy rules"}) /\ Len(call.rules) = 2) =>
          /\ (Missing(Before, call.rules[1][1]) /\ GoodCopy(Before, call.rules[2])) =>
                IF call.source_key_optional
                THEN pc = "returned" /\ After = CopyOf(Before, call.rules[2])
                ELSE ret.err = "NoSourcePathError" /\ After = Before
          /\ (GoodCopy(Before, call.rules[1])
                /\ Missing(CopyOf(Before, call.rules[1]), call.rules[2][1])) =>
                /\ After = CopyOf(Before, call.rules[1])
                /\ IF call.source_key_optional THEN pc = "returned"
                   ELSE ret.err = "NoSourcePathError"

\* a batch of two moves with optional sources: the first rule's source was
\* missing and the second rule moved its value
C14_Witness ==
    /\ BatchCall({"move rules"})
    /\ pc = "returned"
    /\ call.source_key_optional
    /\ Len(call.rules) = 2
    /\ Missing(Before, call.rules[1][1])
    /\ TLookup(Before, call.rules[2][1]) # Absent
    /\ Missing(Before, call.rules[2][2])
    /\ TLookup(After, call.rules[2][2]) = TLookup(Before, call.rules[2][1])
    /\ After # Before

-----------------------------------------------------------------------------
(* More properties of derive *)

\* a derive rule run with optional sources, one of them missing and each
\* of the others missing or resolved
DeriveMissingOptional ==
    /\ pc # "idle"
    /\ call.op = "derive"
    /\ call.source_key_optional
    /\ \E k \in 1..Len(call.source_paths) : Missing(Before, call.source_paths[k])
    /\ \A k \in 1..Len(call.source_paths) :
          \/ Missing(Before, call.source_paths[k])
          \/ TLookup(Before, call.source_paths[k]) # Absent

\* C15: a derive rule run with source_key_optional set and a missing source
\* raises nothing, never invokes the transform, writes no target and
\* leaves the document unchanged
C15_DeriveSkipsMissing ==
    DeriveMissingOptional =>
        /\ pc = "returned"
        /\ call.invoked = 0
        /\ call.args = <<>>
        /\ call.written = {}
        /\ After = Before
        /\ heap = pre

\* two sources, the first resolves and the second is missing, one target
\* declared and one non-empty value that the transform would return
C15_Witness ==
    /\ DeriveMissingOptional
    /\ Len(call.source_paths) = 2
    /\ TLookup(Before, call.source_paths[1]) # Absent
    /\ Missing(Before, call.source_paths[2])
    /\ Len(call.target_paths) = 1
    /\ call.returns = Returned(<<IntV(1)>>)
    /\ Missing(Before, call.target_paths[1])
    /\ pc = "returned"

\* a derive rule whose sources all resolved, whose transform returned one
\* non-empty value per target path, and whose target paths are all fresh
DeriveAllWritable ==
    /\ DeriveWellFormed
    /\ \A i \in 1..Len(call.returns.items) : ~IsEmptyValue(call.returns.items[i])

\* the document is the one before plus every output at its target path, and
\* every source path still resolves
AllWritten ==
    /\ pc = "returned"
    /\ After = TWrites(Before, call.target_paths, call.returns.items,
                       1..Len(call.target_paths), 1)
    /\ \A i \in 1..Len(call.target_paths) :
          TLookup(After, call.target_paths[i]) = call.returns.items[i]
    /\ \A k \in 1..Len(call.source_paths) :
          TLookup(After, call.source_paths[k]) # Absent

\* C16: a derive rule whose sources resolve, whose transform returns one
\* non-empty value per target path and whose targets are fresh leaves the
\* document as it was plus target_paths[i] = outputs[i] for every i, the
\* sources still in place
C16_DeriveEndToEnd ==
    DeriveAllWritable => AllWritten

\* the same with the rules run under policy OK left out
C16_DeriveEndToEndUnlessOk ==
    (DeriveAllWritable /\ call.empty # "OK") => AllWritten

-----------------------------------------------------------------------------
(* Properties of batch delete, get, pop and add *)

\* the tree without the paths of the list that it holds, from the n-th on
RECURSIVE TDeletes(_, _, _)
TDeletes(tree, paths, n) ==
    IF n > Len(paths) THEN tree
    ELSE TDeletes(IF TLookup(tree, paths[n]) # Absent THEN TDel(tree, paths[n]) ELSE tree,
                  paths, n + 1)

\* every path of the list is missing from the tree or resolves in it, and
\* no two lead through each other
PlainPaths(tree, paths) ==
    /\ \A i \in 1..Len(paths) : Missing(tree, paths[i]) \/ TLookup(tree, paths[i]) # Absent
    /\ \A i, j \in 1..Len(paths) : i # j => Apart(paths[i], paths[j])

\* C17: batch delete with source_key_optional set passes over a missing
\* path without raising and removes every path of the list that is present
C17_DeleteOptional ==
    (BatchCall({"delete rules"}) /\ call.source_key_optional
        /\ PlainPaths(Before, call.rules)) =>
        /\ pc = "returned"
        /\ After = TDeletes(Before, call.rules, 1)

\* the same for the lists none of whose paths is missing
C17_DeletePresent ==
    (BatchCall({"delete rules"}) /\ PlainPaths(Before, call.rules)
        /\ \A i \in 1..Len(call.rules) : TLookup(Before, call.rules[i]) # Absent) =>
        /\ pc = "returned"
        /\ After = TDeletes(Before, call.rules, 1)

\* the paths of a list of add rules
AddPaths(adds) == [i \in 1..Len(adds) |-> adds[i][1]]

\* the tree with every rule's value at the rule's path, from the n-th on
RECURSIVE TAdds(_, _, _)
TAdds(tree, adds, n) ==
    IF n > Len(adds) THEN tree
    ELSE TAdds(TSet(tree, adds[n][1], adds[n][2]), adds, n + 1)

\* C19: batch add writes every rule's value at the rule's path, in order,
\* also at a path that already holds a value, and never stops on a collision
C19_AddUnconditional ==
    (BatchCall({"add rules"}) /\ PlainPaths(Before, AddPaths(call.rules))) =>
        /\ pc = "returned"
        /\ call.attempted = Len(call.rules)
        /\ After = TAdds(Before, call.rules, 1)

\* the same for the lists all of whose paths are fresh
C19_AddFresh ==
    (BatchCall({"add rules"}) /\ PlainPaths(Before, AddPaths(call.rules))
        /\ \A i \in 1..Len(call.rules) : Missing(Before, call.rules[i][1])) =>
        /\ pc = "returned"
        /\ call.attempted = Len(call.rules)
        /\ After = TAdds(Before, call.rules, 1)

\* a batch get or pop none of whose paths raises: each path resolves, or is
\* missing with source_key_optional set
Yielding(ops) ==
    /\ BatchCall(ops)
    /\ PlainPaths(Before, call.rules)
    /\ \/ call.source_key_optional
       \/ \A i \in 1..Len(call.rules) : TLookup(Before, call.rules[i]) # Absent

\* one result per rule, in rule order: the value at the path, or the
\* failure marker for a missing path
SlotPerRule ==
    /\ pc = "returned"
    /\ ret.val.t = "list"
    /\ Len(ret.val.v) = Len(call.rules)
    /\ \A i \in 1..Len(call.rules) :
          IF TLookup(Before, call.rules[i]) # Absent
          THEN Tree(heap, ret.val.v[i], MaxDepth) = TLookup(Before, call.rules[i])
          ELSE ret.val.v[i] = failure_value

\* C18: batch get and batch pop yield one result per rule in rule order,
\* the value at the path or, for a missing optional path, the failure
\* marker, the later slots still produced; pop also removes each resolved
\* key from its parent, and get changes nothing
C18_SlotPerRule ==
    /\ Yielding({"get rules"}) => (SlotPerRule /\ heap = pre)
    /\ Yielding({"pop rules"}) => (SlotPerRule /\ After = TDeletes(Before, call.rules, 1))

\* a pop of two paths: the first is missing, the second held a value and
\* is removed
C18_Witness ==
    /\ Yielding({"pop rules"})
    /\ pc = "returned"
    /\ Len(call.rules) = 2
    /\ Missing(Before, call.rules[1])
    /\ TLookup(Before, call.rules[2]) \notin {Absent, failure_value}
    /\ ret.val.v[1] = failure_value
    /\ ret.val.v[2] # failure_value
    /\ TLookup(After, call.rules[2]) = Absent


-----------------------------------------------------------------------------
(* _DictTransformer.subpipeline, with the generator expressed to its end.  *)
(* A descriptor is <<get_adds, pipeline_class, target_path>>, get_adds a   *)
(* list of <<get_path, add_path>>.  The nested pipeline class is the       *)
(* caller's: the model knows it by the data its instance produces.         *)

\* None given as add_path or as target_path
NoPath == <<>>

\* adops.add(data, target_path, value) on a data that need not be the main
\* document: the sub-document, or whatever value replaced it
adops_add_in(h, data, target_path, value, fail_on_exists, update) ==
    LET w == add_prefixes(h, data, SubSeq(target_path, 1, Len(target_path) - 1))
        target_key == target_path[Len(target_path)]
        c == Contains(w.heap, w.target, target_key)
    IN  CASE w.err # "ok" -> Res(w.err, w.heap, NoneV)
          [] ~update /\ fail_on_exists /\ c = "TypeError" -> Res("TypeError", w.heap, NoneV)
          [] ~update /\ fail_on_exists /\ c = "yes" ->
                Res("TargetPathExistsError", w.heap, NoneV)
          [] w.target.t # "ref" -> Res("TypeError", w.heap, NoneV)
          [] OTHER -> Res("ok", HeapSet(w.heap, w.target.v, target_key, value), NoneV)

\* the inner loop over get_adds, from the k-th pair on
RECURSIVE assemble(_, _, _, _)
assemble(h, get_adds, k, selected_data) ==
    IF k > Len(get_adds)
    THEN [err |-> "ok", heap |-> h, selected_data |-> selected_data, get_path |-> NoPath]
    ELSE LET get_path == get_adds[k][1]
             add_path == get_adds[k][2]
             g == adops_get(h, get_path)
             a == adops_add_in(h, selected_data, add_path, g.val, TRUE, FALSE)
             out(err, hh) == [err |-> err, heap |-> hh, selected_data |-> selected_data,
                              get_path |-> get_path]
         IN  CASE g.err # "ok" -> out(g.err, h)
               [] add_path = NoPath -> assemble(h, get_adds, k + 1, g.val)
               [] a.err # "ok" -> out(a.err, a.heap)
               [] OTHER -> assemble(a.heap, get_adds, k + 1, selected_data)

\* what the generator has done so far: the heap, the list prepared, what
\* it has yielded, and the order of its steps; assembled is the heap as the
\* first loop left it, merged the heap around each instance's merge step
SubState(h, prepared, yielded, events) ==
    [err |-> "ok", heap |-> h, prepared |-> prepared, yielded |-> yielded,
     events |-> events, assembled |-> <<>>, merged |-> <<>>]

ErrorRecord(i, get_path, err, pipeline_class) ==
    [t |-> "error", i |-> i, get_path |-> get_path, err |-> err,
     class |-> pipeline_class]

Capability(i, pipeline_class, data) ==
    [t |-> "capability", i |-> i, class |-> pipeline_class, data |-> data]

\* a first loop without `if not ok: continue`: a descriptor with a missing
\* get path is reported and prepared all the same
RECURSIVE prepare_keeps(_, _, _, _)
prepare_keeps(st, subpipelines, source_key_optional, i) ==
    IF i > Len(subpipelines) THEN [st EXCEPT !.assembled = st.heap]
    ELSE LET fresh == Len(st.heap) + 1
             r == assemble(Append(st.heap, EmptyDict), subpipelines[i][1], 1, Ref(fresh))
             kept == Append(st.prepared, [i |-> i, data |-> r.selected_data])
         IN  CASE r.err = "ok" ->
                    prepare_keeps([st EXCEPT !.heap = r.heap, !.prepared = kept,
                                             !.events = Append(@, <<"assemble", i>>)],
                                  subpipelines, source_key_optional, i + 1)
               [] r.err = "NoSourcePathError" /\ source_key_optional ->
                    prepare_keeps([st EXCEPT !.heap = r.heap,
                                             !.prepared = kept,
                                             !.yielded = Append(@, ErrorRecord(i, r.get_path,
                                                                   r.err, subpipelines[i][2])),
                                             !.events = @ \o <<<<"assemble", i>>,
                                                                 <<"record", i>>>>],
                                  subpipelines, source_key_optional, i + 1)
               [] OTHER -> [st EXCEPT !.err = r.err, !.heap = r.heap,
                                      !.events = Append(@, <<"assemble", i>>)]

\* the first loop, from the i-th descriptor on
RECURSIVE prepare(_, _, _, _)
prepare(st, subpipelines, source_key_optional, i) ==
    IF i > Len(subpipelines) THEN [st EXCEPT !.assembled = st.heap]
    ELSE LET fresh == Len(st.heap) + 1
             r == assemble(Append(st.heap, EmptyDict), subpipelines[i][1], 1, Ref(fresh))
         IN  CASE r.err = "ok" ->
                    prepare([st EXCEPT !.heap = r.heap,
                                       !.prepared = Append(@, [i |-> i,
                                                               data |-> r.selected_data]),
                                       !.events = Append(@, <<"assemble", i>>)],
                            subpipelines, source_key_optional, i + 1)
               [] r.err = "NoSourcePathError" /\ source_key_optional ->
                    prepare([st EXCEPT !.heap = r.heap,
                                       !.yielded = Append(@, ErrorRecord(i, r.get_path, r.err,
                                                                         subpipelines[i][2])),
                                       !.events = @ \o <<<<"assemble", i>>,
                                                           <<"record", i>>>>],
                            subpipelines, source_key_optional, i + 1)
               [] OTHER -> [st EXCEPT !.err = r.err, !.heap = r.heap,
                                      !.events = Append(@, <<"assemble", i>>)]

\* p.data of the instance pc(DataWrapper(selected_data), lifters,
\* runtime_context): a pipeline that hands its input on, or one that
\* produces a value of its own
PipelineClasses == {"echo", "const"}

PipelineData(pipeline_class, selected_data) ==
    IF pipeline_class = "echo" THEN selected_data ELSE IntV(1)

\* a second loop that evaluates each instance's data and never merges it
RECURSIVE run_unmerged(_, _, _, _)
run_unmerged(st, subpipelines, update, n) ==
    IF st.err # "ok" \/ n > Len(st.prepared) THEN st
    ELSE LET i == st.prepared[n].i
             pipeline_class == subpipelines[i][2]
             data == PipelineData(pipeline_class, st.prepared[n].data)
         IN  run_unmerged([st EXCEPT !.yielded = Append(@, Capability(i, pipeline_class, data)),
                                     !.events = @ \o <<<<"construct", i>>, <<"data", i>>,
                                                       <<"yield", i>>>>,
                                     !.merged = Append(@, [i |-> i, before |-> st.heap,
                                                           heap |-> st.heap])],
                          subpipelines, update, n + 1)

\* the second loop, from the n-th prepared entry on
RECURSIVE run(_, _, _, _)
run(st, subpipelines, update, n) ==
    IF st.err # "ok" \/ n > Len(st.prepared) THEN st
    ELSE LET i == st.prepared[n].i
             pipeline_class == subpipelines[i][2]
             target_path == subpipelines[i][3]
             data == PipelineData(pipeline_class, st.prepared[n].data)
             m == IF update THEN adops_update(st.heap, target_path, data)
                  ELSE adops_add(st.heap, target_path, data, TRUE, FALSE)
             built == Append(st.events, <<"construct", i>>)
         IN  IF target_path = NoPath
             THEN run([st EXCEPT !.yielded = Append(@, Capability(i, pipeline_class, data)),
                                 !.events = built \o <<<<"data", i>>, <<"yield", i>>>>,
                                 !.merged = Append(@, [i |-> i, before |-> st.heap,
                                                       heap |-> st.heap])],
                      subpipelines, update, n + 1)
             ELSE IF m.err # "ok"
             THEN [st EXCEPT !.err = m.err, !.heap = m.heap,
                             !.events = Append(built, <<"data", i>>)]
             ELSE run([st EXCEPT !.heap = m.heap,
                                 !.yielded = Append(@, Capability(i, pipeline_class, data)),
                                 !.events = built \o <<<<"data", i>>, <<"merge", i>>,
                                                       <<"yield", i>>>>,
                                 !.merged = Append(@, [i |-> i, before |-> st.heap,
                                                       heap |-> m.heap])],
                      subpipelines, update, n + 1)

\* a subpipeline of one loop: each descriptor is assembled and its instance
\* constructed, merged and yielded before the next descriptor is looked at
RECURSIVE interleaved(_, _, _, _, _)
interleaved(st, subpipelines, update, source_key_optional, i) ==
    IF st.err # "ok" \/ i > Len(subpipelines) THEN st
    ELSE interleaved(run(prepare(st, SubSeq(subpipelines, 1, i), source_key_optional, i),
                         subpipelines, update, Len(st.prepared) + 1),
                     subpipelines, update, source_key_optional, i + 1)

DT_subpipeline_interleaved(h, subpipelines, update, source_key_optional) ==
    interleaved(SubState(h, <<>>, <<>>, <<>>), subpipelines, update, source_key_optional, 1)

DT_subpipeline(h, subpipelines, update, source_key_optional) ==
    run(prepare(SubState(h, <<>>, <<>>, <<>>), subpipelines, source_key_optional, 1),
        subpipelines, update, 1)

-----------------------------------------------------------------------------
(* subpipeline, called with one or two descriptors *)

GetPaths == {<<"x">>, <<"y">>}

AddPathsOrNone == {NoPath, <<"x">>, <<"y">>}

TargetPathsOrNone == {NoPath, <<"y">>}

\* the lists of get/add pairs: one pair, or two pairs that get different
\* paths, the second of which adds beside the first, onto it, or into the
\* value the first one selected whole
GetAddLists ==
    ({<<<<g, a>>>> : g \in GetPaths, a \in AddPathsOrNone} \ {<< <<<<"y">>, <<"x">>>> >>}) \cup
    {<< <<<<"x">>, <<"x">>>>, <<<<"y">>, b>> >> : b \in {<<"x">>, <<"y">>}} \cup
    {<< <<<<"x">>, NoPath>>, <<<<"y">>, <<"y">>>> >>}

Descriptors == GetAddLists \X PipelineClasses \X TargetPathsOrNone

Subpipeline ==
    /\ pc = "idle"
    /\ \E subpipelines \in Lists(Descriptors), update \in BOOLEAN, sko \in BOOLEAN :
        \E r \in {DT_subpipeline(heap, subpipelines, update, sko)} :
            Finish([op |-> "subpipeline", subpipelines |-> subpipelines,
                    update |-> update, source_key_optional |-> sko,
                    yielded |-> r.yielded, events |-> r.events,
                    prepared |-> r.prepared, assembled |-> r.assembled,
                    merged |-> r.merged],
                   [err |-> r.err, heap |-> r.heap, val |-> NoneV])

NextSub == Subpipeline

SpecSub == Init /\ [][NextSub]_vars

-----------------------------------------------------------------------------
(* Properties of subpipeline *)

SubCall == pc # "idle" /\ call.op = "subpipeline"

GetAdds(i) == call.subpipelines[i][1]

Class(i) == call.subpipelines[i][2]

Target(i) == call.subpipelines[i][3]

\* the k-th get path of descriptor i is missing and those before it resolve
FirstMissing(i, k) ==
    /\ Missing(Before, GetAdds(i)[k][1])
    /\ \A j \in 1..(k - 1) : TLookup(Before, GetAdds(i)[j][1]) # Absent

\* a get path of descriptor i is missing
Skippable(i) == \E k \in 1..Len(GetAdds(i)) : FirstMissing(i, k)

\* every get path of descriptor i resolves
Resolving(i) == \A k \in 1..Len(GetAdds(i)) : TLookup(Before, GetAdds(i)[k][1]) # Absent

\* the adds of descriptor i go into its fresh sub-document and cannot
\* collide: no add path follows a None, no two add paths lead through each
\* other
PlainAssembly(i) ==
    \A k, j \in 1..Len(GetAdds(i)) :
        k < j => /\ GetAdds(i)[k][2] # NoPath
                 /\ GetAdds(i)[j][2] # NoPath => Apart(GetAdds(i)[k][2], GetAdds(i)[j][2])

\* the merge of descriptor i cannot fail: it has no target, or its target
\* is fresh and no other descriptor's, or it resolves and update is set
PlainMerge(i) ==
    \/ Target(i) = NoPath
    \/ /\ Missing(Before, Target(i)) \/ (call.update /\ TLookup(Before, Target(i)) # Absent)
       /\ \A j \in 1..Len(call.subpipelines) :
             (j # i /\ Target(j) # NoPath) =>
                 \/ Apart(Target(i), Target(j))
                 \/ Target(i) = Target(j) /\ (call.update \/ ~Resolving(i) \/ ~Resolving(j))

\* a call with optional sources in which every descriptor either has a
\* missing get path or resolves them all, and no add or merge can fail
PlainSubCall ==
    /\ SubCall
    /\ call.source_key_optional
    /\ \A i \in 1..Len(call.subpipelines) : PlainAssembly(i)
    /\ \A i \in 1..Len(call.subpipelines) : Skippable(i) \/ Resolving(i)
    /\ \A i \in 1..Len(call.subpipelines) : PlainMerge(i)

\* the sub-document of descriptor i, from the k-th pair on
RECURSIVE SubDocument(_, _, _)
SubDocument(i, k, tree) ==
    IF k > Len(GetAdds(i)) THEN tree
    ELSE SubDocument(i, k + 1,
                     IF GetAdds(i)[k][2] = NoPath THEN TLookup(Before, GetAdds(i)[k][1])
                     ELSE TSet(tree, GetAdds(i)[k][2], TLookup(Before, GetAdds(i)[k][1])))

\* what the nested pipeline of descriptor i gives as its data
ExpectedData(i) ==
    IF Class(i) = "echo" THEN SubDocument(i, 1, EmptyTree) ELSE IntV(1)

Events == {call.events[n] : n \in 1..Len(call.events)}

\* the indices of call.yielded at which descriptor i's entries of kind t are
YieldedAt(i, t) ==
    {n \in 1..Len(call.yielded) : call.yielded[n].t = t /\ call.yielded[n].i = i}

\* descriptor i was passed over: one error record for its first missing get
\* path, no instance of its pipeline class, nothing written at its target
PassedOver(i) ==
    /\ Cardinality(YieldedAt(i, "error")) = 1
    /\ \A n \in YieldedAt(i, "error") :
          /\ call.yielded[n].err = "NoSourcePathError"
          /\ call.yielded[n].class = Class(i)
          /\ \E k \in 1..Len(GetAdds(i)) :
                FirstMissing(i, k) /\ call.yielded[n].get_path = GetAdds(i)[k][1]
    /\ YieldedAt(i, "capability") = {}
    /\ Events \cap {<<"construct", i>>, <<"data", i>>, <<"merge", i>>, <<"yield", i>>} = {}
    /\ (Target(i) # NoPath
          /\ \A j \in 1..Len(call.subpipelines) : Resolving(j) => Target(j) # Target(i)) =>
          TLookup(After, Target(i)) = TLookup(Before, Target(i))

\* descriptor i was run and merged: its instance was constructed and
\* yielded, and its data is at its target unless a later descriptor with
\* the same target replaced it
RunAndMerged(i) ==
    /\ YieldedAt(i, "error") = {}
    /\ Cardinality(YieldedAt(i, "capability")) = 1
    /\ {<<"construct", i>>, <<"data", i>>, <<"yield", i>>} \subseteq Events
    /\ Target(i) # NoPath =>
          /\ <<"merge", i>> \in Events
          /\ (\A j \in (i + 1)..Len(call.subpipelines) :
                 Resolving(j) => Target(j) # Target(i)) =>
                 TLookup(After, Target(i)) = ExpectedData(i)

\* C20: with source_key_optional set, a descriptor one of whose get paths
\* is missing is skipped: no instance of its class is constructed, nothing
\* is written at its target, one error record (get_path, error, class) is
\* yielded for it and nothing is raised; every sibling whose get paths all
\* resolve is still run and merged
C20_SubpipelineSkips ==
    PlainSubCall =>
        /\ pc = "returned"
        /\ \A i \in 1..Len(call.subpipelines) :
              IF Skippable(i) THEN PassedOver(i) ELSE RunAndMerged(i)

\* two descriptors: the first has a missing get path after one that
\* resolves, the second resolves and its data is merged at a fresh target
C20_Witness ==
    /\ PlainSubCall
    /\ pc = "returned"
    /\ Len(call.subpipelines) = 2
    /\ Len(GetAdds(1)) = 2
    /\ FirstMissing(1, 2)
    /\ Target(1) # NoPath
    /\ Resolving(2)
    /\ Target(2) = Target(1)
    /\ Class(2) = "echo"
    /\ Missing(Before, Target(2))
    /\ TLookup(After, Target(2)) = ExpectedData(2)
    /\ call.events = <<<<"assemble", 1>>, <<"record", 1>>, <<"assemble", 2>>,
                       <<"construct", 2>>, <<"data", 2>>, <<"merge", 2>>, <<"yield", 2>>>>


-----------------------------------------------------------------------------
(* The merge step of subpipeline *)

\* the entries of call.merged: one per instance yielded, with the heap
\* before its construction and the heap at its yield
MergedAt(i) == {m \in 1..Len(call.merged) : call.merged[m].i = i}

\* how many times the data of descriptor i's instance was evaluated
DataEvaluations(i) ==
    Cardinality({n \in 1..Len(call.events) : call.events[n] = <<"data", i>>})

\* the instance of descriptor i, yielded as the n-th item, has its data at
\* the target in the document as it is at that yield
HeldAtTarget(n) ==
    LET i == call.yielded[n].i
    IN  /\ Cardinality(MergedAt(i)) = 1
        /\ \A m \in MergedAt(i) :
              IF Target(i) # NoPath
              THEN LET g == adops_get(call.merged[m].heap, Target(i))
                   IN  g.err = "ok" /\ g.val = call.yielded[n].data
              ELSE /\ DataEvaluations(i) = 1
                   /\ <<"merge", i>> \notin Events
                   /\ call.merged[m].heap = call.merged[m].before

\* C21: when the instance of an assembled descriptor has been yielded, the
\* main document holds its data at target_path if there is one, and in
\* update mode a value already at the target is overwritten, never a
\* collision; with target_path None the data was evaluated exactly once and
\* the merge step wrote nothing
C21_MergeAtTarget ==
    SubCall =>
        /\ \A n \in 1..Len(call.yielded) :
              call.yielded[n].t = "capability" => HeldAtTarget(n)
        /\ (call.update /\ pc = "raised" /\ ret.err = "TargetPathExistsError") =>
              \A i \in 1..Len(call.subpipelines) : <<"construct", i>> \notin Events

\* update mode: the first instance's data replaced a different value at its
\* target, the second instance has no target and left the document alone
C21_Witness ==
    /\ SubCall
    /\ pc = "returned"
    /\ call.update
    /\ Len(call.subpipelines) = 2
    /\ Len(call.yielded) = 2
    /\ call.yielded[1].t = "capability" /\ call.yielded[2].t = "capability"
    /\ Target(1) # NoPath /\ Target(2) = NoPath
    /\ TLookup(Before, Target(1)) \notin {Absent, IntV(1)}
    /\ Class(1) = "const"
    /\ TLookup(After, Target(1)) = IntV(1)
    /\ HeldAtTarget(1) /\ HeldAtTarget(2)

-----------------------------------------------------------------------------
(* Paths that are not a list or a tuple.  A caller may pass any object as  *)
(* a path: a str is subscriptable and its items are one-character keys, an *)
(* int is not subscriptable.                                               *)

PathArg(type, items) == [type |-> type, items |-> items]

\* add, with its isinstance test of target_path
path_add(h, target_path, value, fail_on_exists, update) ==
    IF target_path.type # "list" THEN Res("TypeError", h, NoneV)
    ELSE adops_add(h, target_path.items, value, fail_on_exists, update)

\* _get_source takes source_path[:-1] and source_path[-1] and tests nothing
path_get(h, source_path) ==
    IF source_path.type = "int" THEN Res("TypeError", h, NoneV)
    ELSE adops_get(h, source_path.items)

path_pop(h, source_path) ==
    IF source_path.type = "int" THEN Res("TypeError", h, NoneV)
    ELSE adops_pop(h, source_path.items)

\* _copy_or_move: the source is resolved, and for a move popped, before add
\* looks at target_path
path_copy_or_move(h, source_path, target_path, move) ==
    LET gs == get_source(h, source_path.items)
        parent == gs.source.v
        source == h[parent][gs.source_key]
        popped == [h EXCEPT ![parent] = DictDel(@, gs.source_key)]
    IN  CASE source_path.type = "int" -> Res("TypeError", h, NoneV)
          [] target_path.type = "list" ->
                copy_or_move(h, source_path.items, target_path.items, move)
          [] gs.err # "ok" -> Res(gs.err, h, NoneV)
          [] move /\ gs.node_key # empty_node_key ->
                Res("TypeError", HeapSet(popped, parent, gs.node_key, source), NoneV)
          [] move -> Res("TypeError", popped, NoneV)
          [] source.t = "ref" /\ Tree(h, source, MaxDepth) = DocTree(h) ->
                Res("BaseException", h, NoneV)
          [] OTHER -> Res("TypeError", deepcopy(h, source).heap, NoneV)

\* derive with one rule of one source path: an int source path raises
\* inside defer_get, which apply does not catch
path_derive(h, source_path, returns, target_paths, source_key_optional, policy) ==
    IF source_path.type = "int" THEN Res("TypeError", h, NoneV)
    ELSE DT_derive(h, <<source_path.items>>, returns, target_paths,
                   source_key_optional, policy)

PathArgs ==
    {PathArg(type, items) : type \in {"list", "str"}, items \in Paths}
        \cup {PathArg("int", <<>>)}

PathAdd ==
    /\ pc = "idle"
    /\ \E path \in PathArgs, value \in Scalars :
        Finish([op |-> "adops.add", sources |-> {}, targets |-> {path}, value |-> value,
                source_key_optional |-> FALSE],
               path_add(heap, path, value, TRUE, FALSE))

PathGet ==
    /\ pc = "idle"
    /\ \E path \in PathArgs, sko \in BOOLEAN :
        Finish([op |-> "get", sources |-> {path}, targets |-> {},
                source_key_optional |-> sko],
               adops_apply(path_get(heap, path), sko, {}, failure_value))

PathPop ==
    /\ pc = "idle"
    /\ \E path \in PathArgs, sko \in BOOLEAN :
        Finish([op |-> "pop", sources |-> {path}, targets |-> {},
                source_key_optional |-> sko],
               adops_apply(path_pop(heap, path), sko, {}, failure_value))

PathCopy ==
    /\ pc = "idle"
    /\ \E src \in PathArgs, dst \in PathArgs, sko \in BOOLEAN :
        Finish([op |-> "copy", sources |-> {src}, targets |-> {dst},
                source_key_optional |-> sko],
               adops_apply(path_copy_or_move(heap, src, dst, FALSE), sko, {},
                           failure_value))

PathMove ==
    /\ pc = "idle"
    /\ \E src \in PathArgs, dst \in PathArgs, sko \in BOOLEAN :
        Finish([op |-> "move", sources |-> {src}, targets |-> {dst},
                source_key_optional |-> sko],
               adops_apply(path_copy_or_move(heap, src, dst, TRUE), sko, {},
                           failure_value))

PathDerive ==
    /\ pc = "idle"
    /\ \E src \in PathArgs, sko \in BOOLEAN, policy \in Policies :
        \E r \in {path_derive(heap, src, Returned(<<IntV(1)>>), <<<<"y">>>>, sko, policy)} :
            Finish([op |-> "derive", sources |-> {src}, targets |-> {},
                    source_key_optional |-> sko],
                   [err |-> r.err, heap |-> r.heap, val |-> NoneV])

NextPath == PathAdd \/ PathGet \/ PathPop \/ PathCopy \/ PathMove \/ PathDerive

SpecPath == Init /\ [][NextPath]_vars

\* the call was given a path that is not a list or a tuple
MalformedPath == \E path \in call.sources \cup call.targets : path.type # "list"

\* C22: a call of add, get, pop, copy, move or derive with a path that is
\* not a list or a tuple, as source or as target, raises TypeError, whatever
\* source_key_optional is
C22_MalformedPathRejected ==
    (pc # "idle" /\ MalformedPath) => (pc = "raised" /\ ret.err = "TypeError")

\* what does hold: a path that cannot be subscripted is rejected, and so is
\* a target path of add that is not a list or a tuple
C22_UnsubscriptableRejected ==
    (pc # "idle" /\ (\/ \E path \in call.sources : path.type = "int"
                     \/ call.op = "adops.add" /\ MalformedPath)) =>
        (pc = "raised" /\ ret.err = "TypeError")

-----------------------------------------------------------------------------
(* The assembly phase of subpipeline *)

\* the heap as the first loop left it: at its end, or where it raised
AssembledHeap == IF call.assembled # <<>> THEN call.assembled ELSE heap

\* the dict objects of the main document in heap h
MainNodes(h) == Reach(h, {1}, {})

\* the dict objects of the sub-document value data in heap h
SubNodes(h, data) == IF data.t = "ref" THEN Reach(h, {data.v}, {}) ELSE {}

\* C23: when the assembly of a subpipeline call is over, the main document
\* is structurally what it was at the call, and no sub-document prepared
\* shares a dict object with it
C23_AssemblyIsolated ==
    SubCall =>
        /\ DocTree(AssembledHeap) = Before
        /\ \A n \in 1..Len(call.prepared) :
              SubNodes(AssembledHeap, call.prepared[n].data) \cap MainNodes(AssembledHeap) = {}

\* what does hold: a call whose get paths resolve to no dict leaves the
\* main document as it was and shares nothing with it
C23_ScalarsIsolated ==
    (SubCall /\ \A i \in 1..Len(call.subpipelines) : \A k \in 1..Len(GetAdds(i)) :
                    TLookup(Before, GetAdds(i)[k][1]) \in Scalars \cup {Absent}) =>
        /\ DocTree(AssembledHeap) = Before
        /\ \A n \in 1..Len(call.prepared) :
              SubNodes(AssembledHeap, call.prepared[n].data) \cap MainNodes(AssembledHeap) = {}

\* the first half alone, which fails too: an add after a pair with add_path
\* None writes into the dict that pair got from the main document
C23_MainDocumentKept == SubCall => DocTree(AssembledHeap) = Before

-----------------------------------------------------------------------------
(* A transform that returns a value that is not a sequence *)

\* the transform of a rule with target paths ran and returned a value
\* that cannot be iterated
UnboxedReturn ==
    /\ pc # "idle"
    /\ call.op = "derive"
    /\ call.invoked = 1
    /\ ~call.returns.iter
    /\ call.target_paths # <<>>

\* C24: a transform that returns a non-sequence while target paths are
\* declared fails the batch with TypeError and writes nothing, whatever
\* source_key_optional is
C24_UnboxedAlwaysFails ==
    UnboxedReturn => (pc = "raised" /\ ret.err = "TypeError" /\ call.written = {})

\* what does hold: the same when source_key_optional is false
C24_UnboxedFailsWhenRequired ==
    (UnboxedReturn /\ ~call.source_key_optional) =>
        (pc = "raised" /\ ret.err = "TypeError" /\ call.written = {})

-----------------------------------------------------------------------------
(* _DictTransformer.pop as the generator it is: the call creates it, each  *)
(* next() of the consumer runs its body up to the following yield.         *)

\* a pop that runs its whole loop when it is called
pop_create_eager(h, pops, source_key_optional) ==
    [err |-> "ok", heap |-> DT_pop_rules(h, pops, source_key_optional, 1, <<>>).heap,
     val |-> NoneV]

\* calling the generator function runs nothing of its body
pop_create(h, pops, source_key_optional) == Res("ok", h, NoneV)

\* next() on the generator that has yielded consumed items
pop_next(h, pops, source_key_optional, consumed) ==
    IF consumed = Len(pops) THEN Res("StopIteration", h, NoneV)
    ELSE DT_pop(h, pops[consumed + 1], source_key_optional)

PopCreate ==
    /\ pc = "idle"
    /\ \E pops \in Lists(BatchPaths), sko \in BOOLEAN :
        /\ pc' = "suspended"
        /\ call' = [op |-> "pop generator", rules |-> pops, source_key_optional |-> sko,
                    consumed |-> 0, yielded |-> <<>>]
        /\ pre' = heap
        /\ heap' = pop_create(heap, pops, sko).heap
        /\ UNCHANGED ret

PopNext ==
    /\ pc = "suspended"
    /\ call.op = "pop generator"
    /\ \E r \in {pop_next(heap, call.rules, call.source_key_optional, call.consumed)} :
        /\ pc' = CASE r.err = "ok" -> "suspended"
                   [] r.err = "StopIteration" -> "exhausted"
                   [] OTHER -> "raised"
        /\ call' = IF r.err = "ok"
                   THEN [call EXCEPT !.consumed = @ + 1, !.yielded = Append(@, r.val)]
                   ELSE call
        /\ heap' = r.heap
        /\ ret' = [err |-> r.err, val |-> r.val]
        /\ UNCHANGED pre

NextLazy == PopCreate \/ PopNext

SpecLazy == Init /\ [][NextLazy]_vars

PopGenerator == pc # "idle" /\ call.op = "pop generator"

\* C25: at every moment of a pop batch the document is the document of the
\* call without the keys that the rules consumed so far resolved, each in
\* its turn: nothing is removed at the call, and the key of rule i goes when
\* the i-th result is consumed
C25_PopLazy ==
    PopGenerator =>
        /\ After = TDeletes(Before, SubSeq(call.rules, 1, call.consumed), 1)
        /\ Len(call.yielded) = call.consumed
        /\ call.consumed = 0 => After = Before

\* two rules that resolve, one result consumed: the first key is gone, the
\* second is still there
C25_Witness ==
    /\ PopGenerator
    /\ pc = "suspended"
    /\ Len(call.rules) = 2
    /\ call.consumed = 1
    /\ Apart(call.rules[1], call.rules[2])
    /\ TLookup(Before, call.rules[1]) # Absent
    /\ TLookup(Before, call.rules[2]) # Absent
    /\ TLookup(After, call.rules[1]) = Absent
    /\ TLookup(After, call.rules[2]) = TLookup(Before, call.rules[2])

-----------------------------------------------------------------------------
(* Rule order within one batch *)

TwoRules(op) == BatchCall({op}) /\ Len(call.rules) = 2

\* what a move rule that can be carried out makes of the tree, the frame of
\* the source's parent left aside
MoveOf(tree, rule) == TSet(TDel(tree, rule[1]), rule[2], TLookup(tree, rule[1]))

\* the second rule's source is the first rule's target, which the document
\* of the call does not have; both rules can be carried out in turn
Chained(of(_, _)) ==
    /\ call.rules[2][1] = call.rules[1][2]
    /\ GoodCopy(Before, call.rules[1])
    /\ GoodCopy(of(Before, call.rules[1]), call.rules[2])

\* both move rules have the same source, which the first can move
MovedAway ==
    /\ TwoRules("move rules")
    /\ call.rules[2][1] = call.rules[1][1]
    /\ GoodCopy(Before, call.rules[1])

\* the first derive rule has its sources and a fresh target, which is a
\* source of the second; the second rule's other sources are there and its
\* target is fresh once the first has written
DeriveChained ==
    /\ TwoRules("derive rules")
    /\ Len(call.rules[1][3]) = 1
    /\ Len(call.rules[2][3]) = 1
    /\ \A k \in 1..Len(call.rules[1][1]) : TLookup(Before, call.rules[1][1][k]) # Absent
    /\ Missing(Before, call.rules[1][3][1])
    /\ \E k \in 1..Len(call.rules[2][1]) : call.rules[2][1][k] = call.rules[1][3][1]
    /\ \A k \in 1..Len(call.rules[2][1]) :
          call.rules[2][1][k] # call.rules[1][3][1] =>
              TLookup(Before, call.rules[2][1][k]) # Absent
    /\ Apart(call.rules[1][3][1], call.rules[2][3][1])
    /\ Missing(Before, call.rules[2][3][1])

\* the second rule found its source missing
SecondSawMissing ==
    IF call.source_key_optional THEN pc = "returned"
    ELSE pc = "raised" /\ ret.err = "NoSourcePathError" /\ call.attempted = 2

-----------------------------------------------------------------------------
(* Missing prefixes: writes create them, reads do not *)

\* the path has a prefix, and the first key of the path that the tree
\* lacks is a key of that prefix
PrefixMissing(tree, path) ==
    /\ Len(path) >= 2
    /\ Missing(tree, SubSeq(path, 1, Len(path) - 1))

\* C27: an add, or the write of a copy, on a path with missing prefixes
\* makes each missing prefix an empty mapping and sets the final key, and
\* the rest of the document is as before; a get or a pop of a missing path
\* raises NoSourcePathError and creates nothing
C27_PrefixesOnDemand ==
    /\ (pc # "idle" /\ call.op = "adops.add" /\ PrefixMissing(Before, call.path)) =>
          /\ pc = "returned"
          /\ After = TSet(Before, call.path, call.value)
    /\ (pc # "idle" /\ call.op = "adops.copy" /\ TLookup(Before, call.src) # Absent
            /\ PrefixMissing(Before, call.dst)) =>
          /\ pc = "returned"
          /\ After = TSet(Before, call.dst, TLookup(Before, call.src))
    /\ (pc # "idle" /\ call.op \in {"adops.get", "adops.pop"}
            /\ Missing(Before, call.path)) =>
          /\ pc = "raised"
          /\ ret.err = "NoSourcePathError"
          /\ heap = pre

\* an add below a key that the document did not have: the key now holds a
\* mapping with the final key alone
C27_Witness ==
    /\ pc = "returned"
    /\ call.op = "adops.add"
    /\ Len(call.path) = 2
    /\ TLookup(Before, <<call.path[1]>>) = Absent
    /\ Before # EmptyTree
    /\ TLookup(After, <<call.path[1]>>) =
          [t |-> "dict", d |-> DictSet(EmptyDict, call.path[2], call.value)]
    /\ \A k \in DOMAIN Before.d : TLookup(After, <<k>>) = TLookup(Before, <<k>>)

-----------------------------------------------------------------------------
(* A derive rule that declares no target path *)

\* the first rule of a derive batch has no target path and its sources
\* all resolve
NoTargetRule ==
    /\ BatchCall({"derive rules"})
    /\ call.rules[1][3] = <<>>
    /\ \A k \in 1..Len(call.rules[1][1]) : TLookup(Before, call.rules[1][1][k]) # Absent

\* the calls that rule i made of its transform
InvocationsOf(i) ==
    {n \in 1..Len(call.invocations) : call.invocations[n].rule = i}

\* C28: a derive rule with no target path whose sources resolve calls its
\* transform once, with the values at the source paths; whatever the
\* transform returns, a sequence of any length or no sequence at all, the
\* rule writes nothing and raises nothing, and the next rule is carried out
\* as it would be on the untouched document
C28_NoTargetRule ==
    NoTargetRule =>
        /\ Cardinality(InvocationsOf(1)) = 1
        /\ \A n \in InvocationsOf(1) :
              call.invocations[n].args =
                  [k \in 1..Len(call.rules[1][1]) |-> adops_get(pre, call.rules[1][1][k]).val]
        /\ IF Len(call.rules) = 1
           THEN pc = "returned" /\ heap = pre
           ELSE LET r == One(pre, call.op, call.rules[2], call.source_key_optional,
                             call.empty)
                IN  /\ call.attempted = 2
                    /\ ret.err = r.err
                    /\ heap = r.heap

\* sources required: the first rule's transform returned no sequence for no
\* target, and the second rule then wrote its value at a fresh target
C28_Witness ==
    /\ NoTargetRule
    /\ pc = "returned"
    /\ ~call.source_key_optional
    /\ Len(call.rules) = 2
    /\ ~call.rules[1][2].iter
    /\ Len(call.rules[2][3]) = 1
    /\ Missing(Before, call.rules[2][3][1])
    /\ After = TSet(Before, call.rules[2][3][1], IntV(1))
    /\ Len(call.invocations) = 2

-----------------------------------------------------------------------------
(* _DictTransformer.lift.  A lift rule is <<path, new>>: new is what the   *)
(* rule's function returns for the old value.                              *)

\* a lift whose add refuses a key that exists
DT_lift_fails_on_exists(h, path, new, source_key_optional) ==
    LET g == adops_get(h, path)
        out(r, called) == [err |-> r.err, heap |-> r.heap, val |-> NoneV,
                           invoked |-> called, args |-> <<Tree(h, g.val, MaxDepth)>>]
    IN  CASE g.err = "NoSourcePathError" /\ source_key_optional -> out(Res("ok", h, NoneV), 0)
          [] g.err # "ok" -> out(g, 0)
          [] OTHER -> out(adops_add(h, path, new, TRUE, FALSE), 1)

\* one rule of lift: get the old value, call the function, add the new
\* value with fail_on_exists=False
DT_lift(h, path, new, source_key_optional) ==
    LET g == adops_get(h, path)
        out(r, called) == [err |-> r.err, heap |-> r.heap, val |-> NoneV,
                           invoked |-> called, args |-> <<Tree(h, g.val, MaxDepth)>>]
    IN  CASE g.err = "NoSourcePathError" /\ source_key_optional -> out(Res("ok", h, NoneV), 0)
          [] g.err # "ok" -> out(g, 0)
          [] OTHER -> out(adops_add(h, path, new, FALSE, FALSE), 1)

RECURSIVE DT_lift_rules(_, _, _, _)
\* the loop after rule i ended with outcome r
lift_next(r, lifts, source_key_optional, i) ==
    IF r.err # "ok" THEN WithInvocations(Raised(r, i), Invocation(i, r))
    ELSE InvokedFirst(Invocation(i, r),
                      DT_lift_rules(r.heap, lifts, source_key_optional, i + 1))

DT_lift_rules(h, lifts, source_key_optional, i) ==
    IF i > Len(lifts) THEN WithInvocations(Done(h, NoneV, Len(lifts)), <<>>)
    ELSE lift_next(DT_lift(h, lifts[i][1], lifts[i][2], source_key_optional),
                   lifts, source_key_optional, i)

\* what a rule's function returns
LiftValues == {IntV(1), NoneV}

LiftRules == BatchPaths \X LiftValues

Lifts ==
    /\ pc = "idle"
    /\ \E lifts \in Lists(LiftRules), sko \in BOOLEAN :
        \E r \in {DT_lift_rules(heap, lifts, sko, 1)} :
            Finish([op |-> "lift rules", rules |-> lifts, source_key_optional |-> sko,
                    attempted |-> r.attempted, invocations |-> r.invocations], r)

NextLift == Lifts

SpecLift == Init /\ [][NextLift]_vars

\* what lift is to make of the tree from the n-th rule on: a rule whose
\* path resolves puts the new value there and nothing else, a rule whose
\* path is missing is passed over or ends the batch; "other" when a path
\* runs into a value that is no mapping
RECURSIVE LiftExpected(_, _, _, _, _)
LiftExpected(tree, lifts, sko, n, calls) ==
    IF n > Len(lifts)
    THEN [err |-> "ok", tree |-> tree, attempted |-> Len(lifts), calls |-> calls]
    ELSE CASE TLookup(tree, lifts[n][1]) # Absent ->
                LiftExpected(TSet(tree, lifts[n][1], lifts[n][2]), lifts, sko, n + 1,
                             Append(calls, [rule |-> n,
                                            args |-> <<TLookup(tree, lifts[n][1])>>]))
           [] ~Missing(tree, lifts[n][1]) ->
                [err |-> "other", tree |-> tree, attempted |-> n, calls |-> calls]
           [] sko -> LiftExpected(tree, lifts, sko, n + 1, calls)
           [] OTHER ->
                [err |-> "NoSourcePathError", tree |-> tree, attempted |-> n,
                 calls |-> calls]

\* C29: lift takes its rules in order; a rule whose path resolves has its
\* function called with the old value and the result put in its place, with
\* no collision error, no other key changed and no object created; a rule
\* whose path is missing is passed over when source_key_optional is set, and
\* ends the batch with NoSourcePathError when it is not
C29_Lift ==
    BatchCall({"lift rules"}) =>
        LET e == LiftExpected(Before, call.rules, call.source_key_optional, 1, <<>>)
        IN  e.err # "other" =>
                /\ ret.err = e.err
                /\ After = e.tree
                /\ call.attempted = e.attempted
                /\ call.invocations = e.calls
                /\ Len(heap) = Len(pre)

\* sources optional: the first rule's path was missing, the second rule's
\* value was replaced by a different one
C29_Witness ==
    /\ BatchCall({"lift rules"})
    /\ pc = "returned"
    /\ call.source_key_optional
    /\ Len(call.rules) = 2
    /\ Missing(Before, call.rules[1][1])
    /\ TLookup(Before, call.rules[2][1]) \notin {Absent, call.rules[2][2]}
    /\ After = TSet(Before, call.rules[2][1], call.rules[2][2])
    /\ Len(call.invocations) = 1

-----------------------------------------------------------------------------
(* The order of the steps of subpipeline *)

\* steps of the first loop
AssemblySteps == {"assemble", "record"}

\* the step at position n of call.events is the step e, right after the
\* step at n - 1
FollowsAt(n, e, before) == n > 1 /\ call.events[n] = e /\ call.events[n - 1] \in before

\* C30: in every execution of subpipeline the steps are in two phases.
\* All assembly, descriptor by descriptor with each error record right after
\* its descriptor's assembly, comes before the first construction, and no
\* construction happens before every descriptor was assembled.  Then the
\* instances are constructed in descriptor order, each one's data evaluated
\* and, when it has a target, merged before the instance is yielded, and
\* each yielded before the next is constructed
C30_TwoPhases ==
    SubCall =>
        LET ev == call.events
            N == Len(call.events)
            D == Len(call.subpipelines)
        IN  /\ \A a, b \in 1..N :
                  (ev[a][1] \in AssemblySteps /\ ev[b][1] \notin AssemblySteps) => a < b
            /\ (\E n \in 1..N : ev[n][1] = "construct") =>
                  \A i \in 1..D : <<"assemble", i>> \in Events
            /\ \A a, b \in 1..N :
                  (a < b /\ ev[a][1] = ev[b][1]) => ev[a][2] < ev[b][2]
            /\ \A n \in 1..N :
                  LET i == ev[n][2]
                  IN  CASE ev[n][1] = "record" -> FollowsAt(n, ev[n], {<<"assemble", i>>})
                        [] ev[n][1] = "construct" ->
                              /\ n > 1
                              /\ ev[n - 1][1] \in AssemblySteps \cup {"yield"}
                              /\ n < N
                              /\ ev[n + 1] = <<"data", i>>
                        [] ev[n][1] = "data" ->
                              /\ FollowsAt(n, ev[n], {<<"construct", i>>})
                              /\ IF n = N THEN pc = "raised" /\ Target(i) # NoPath
                                 ELSE ev[n + 1] = IF Target(i) # NoPath
                                                  THEN <<"merge", i>> ELSE <<"yield", i>>
                        [] ev[n][1] = "merge" ->
                              /\ FollowsAt(n, ev[n], {<<"data", i>>})
                              /\ Target(i) # NoPath
                              /\ n < N
                              /\ ev[n + 1] = <<"yield", i>>
                        [] ev[n][1] = "yield" ->
                              FollowsAt(n, ev[n], {<<"merge", i>>, <<"data", i>>})
                        [] OTHER -> ev[n][1] = "assemble"

\* two descriptors, both assembled before the first instance is
\* constructed; the first instance is merged and yielded before the second
\* is constructed
C30_Witness ==
    /\ SubCall
    /\ pc = "returned"
    /\ call.events = <<<<"assemble", 1>>, <<"assemble", 2>>,
                       <<"construct", 1>>, <<"data", 1>>, <<"merge", 1>>, <<"yield", 1>>,
                       <<"construct", 2>>, <<"data", 2>>, <<"yield", 2>>>>
    /\ After # Before

====
